---- MODULE Spec2Model ----
(***************************************************************************)
(* Model of the dmx interactive session (src/dmx/interactive.py): the      *)
(* selection parser, the command handler and the batch download loop of    *)
(* InteractiveSession, with the music client as an external collaborator   *)
(* whose answers are chosen nondeterministically.                          *)
(*                                                                         *)
(* Text is modelled as a sequence of one-character strings, so that the    *)
(* parser works on characters as the code does.                            *)
(***************************************************************************)
EXTENDS Integers, Sequences, FiniteSets, TLC

\* ------------------------------------------------------------------ bounds

\* Longest text the parser specification enumerates exhaustively.
MaxInputLen == 4
\* Largest result list a search returns in the model.
MaxResults == 6
\* Largest album list an artist profile carries in the model.
MaxAlbums == 4
\* Longest search history the session specification lets grow.
MaxHistory == 2

\* ------------------------------------------------------- program constants

\* Batches of flat results larger than this are confirmed (len(numbers) > 5).
ConfirmThresholdResults == 5
\* Batches of profile albums larger than this are confirmed (len(numbers) > 3).
ConfirmThresholdAlbums == 3
\* validate_search_query rejects queries longer than this.
MaxQueryChars == 500

\* ------------------------------------------------------------ option values

\* Python's None / empty dict, and a present value, as sets of at most one.
None == {}
Some(x) == {x}
Get(o) == CHOOSE x \in o : TRUE

\* --------------------------------------------------------------- characters

Digits == {"0", "1", "2", "3", "4", "5", "6", "7", "8", "9"}

DigitVal(c) ==
    CASE c = "0" -> 0 [] c = "1" -> 1 [] c = "2" -> 2 [] c = "3" -> 3
      [] c = "4" -> 4 [] c = "5" -> 5 [] c = "6" -> 6 [] c = "7" -> 7
      [] c = "8" -> 8 [] c = "9" -> 9

\* The whitespace the model's texts may hold.
IsSpace(c) == c = " "

\* str.lower on one character (the upper-case letters the model's texts use).
LowerChar(c) ==
    CASE c = "A" -> "a" [] c = "B" -> "b" [] c = "L" -> "l" [] c = "M" -> "m"
      [] c = "Q" -> "q" [] c = "S" -> "s" [] c = "T" -> "t" [] c = "Y" -> "y"
      [] OTHER -> c

Lower(s) == [i \in 1..Len(s) |-> LowerChar(s[i])]

RECURSIVE LStrip(_)
LStrip(s) == IF s # <<>> /\ IsSpace(Head(s)) THEN LStrip(Tail(s)) ELSE s

RECURSIVE RStrip(_)
RStrip(s) ==
    IF s # <<>> /\ IsSpace(s[Len(s)]) THEN RStrip(SubSeq(s, 1, Len(s) - 1)) ELSE s

\* str.strip()
Strip(s) == RStrip(LStrip(s))

\* Position of the first occurrence of character c in s, 0 when absent.
IndexOf(s, c) ==
    IF \E i \in 1..Len(s) : s[i] = c
    THEN CHOOSE i \in 1..Len(s) : s[i] = c /\ \A j \in 1..(i - 1) : s[j] # c
    ELSE 0

\* str.split(c): the parts between the occurrences of c (always at least one).
RECURSIVE Split(_, _)
Split(s, c) ==
    LET k == IndexOf(s, c)
    IN  IF k = 0 THEN <<s>>
        ELSE <<SubSeq(s, 1, k - 1)>> \o Split(SubSeq(s, k + 1, Len(s)), c)

\* Value of a non-empty run of decimal digits.
RECURSIVE DigitsValue(_)
DigitsValue(s) ==
    IF s = <<>> THEN 0
    ELSE 10 * DigitsValue(SubSeq(s, 1, Len(s) - 1)) + DigitVal(s[Len(s)])

AllDigits(s) == s # <<>> /\ \A i \in 1..Len(s) : s[i] \in Digits

\* Python's int(text): surrounding whitespace is dropped, one leading sign is
\* accepted, the rest must be a non-empty run of digits.  None stands for
\* ValueError.
PyInt(s) ==
    LET t == Strip(s)
    IN  IF AllDigits(t) THEN Some(DigitsValue(t))
        ELSE IF t # <<>> /\ t[1] \in {"-", "+"} /\ AllDigits(Tail(t))
             THEN Some(IF t[1] = "-" THEN 0 - DigitsValue(Tail(t))
                                     ELSE DigitsValue(Tail(t)))
        ELSE None

\* sorted(list(set)): the elements of a finite set of integers, ascending.
RECURSIVE SortedList(_)
SortedList(S) ==
    IF S = {} THEN <<>>
    ELSE LET m == CHOOSE x \in S : \A y \in S : x <= y
         IN  <<m>> \o SortedList(S \ {m})

\* list(range(1, n + 1))
RangeList(n) == [i \in 1..n |-> i]

\* The set of elements of a sequence.
Elems(s) == {s[i] : i \in 1..Len(s)}

\* ---------------------------------------------------------- selection parser

\* re.match(r'^[\d,\-\s]+$', text)
LooksLikeSelection(s) ==
    s # <<>> /\ \A i \in 1..Len(s) : s[i] \in Digits \/ s[i] \in {",", "-"} \/ IsSpace(s[i])

\* A variant of ParsePart whose ranges leave out their end.
ParsePart_ExclusiveEnd(raw) ==
    LET part == Strip(raw)
        k == IndexOf(part, "-")
    IN  IF k # 0
        THEN LET start == PyInt(SubSeq(part, 1, k - 1))
                 end == PyInt(SubSeq(part, k + 1, Len(part)))
             IN  IF start = None \/ end = None THEN None
                 ELSE IF Get(start) <= Get(end) THEN Some(Get(start)..(Get(end) - 1))
                 ELSE None
        ELSE LET v == PyInt(part)
             IN  IF v = None THEN None ELSE Some({Get(v)})

\* One comma-separated part: None for a part that rejects the whole
\* expression, otherwise the set of indices the part adds.
ParsePart(raw) ==
    LET part == Strip(raw)
        k == IndexOf(part, "-")
    IN  IF k # 0
        THEN LET start == PyInt(SubSeq(part, 1, k - 1))
                 end == PyInt(SubSeq(part, k + 1, Len(part)))
             IN  IF start = None \/ end = None THEN None
                 ELSE IF Get(start) <= Get(end) THEN Some(Get(start)..Get(end))
                 ELSE None
        ELSE LET v == PyInt(part)
             IN  IF v = None THEN None ELSE Some({Get(v)})

\* The part of _parse_selection_input that reads the text alone: whether it
\* is the keyword `all` or `*`, and otherwise the sorted list of indices it
\* denotes (None when it is not a selection).
ReadSelection(text) ==
    LET inp == Lower(Strip(text))
    IN  IF inp = <<"a", "l", "l">> \/ inp = <<"*">>
        THEN [keyword |-> TRUE, indices |-> None]
        ELSE IF ~LooksLikeSelection(inp) THEN [keyword |-> FALSE, indices |-> None]
        ELSE LET parts == Split(inp, ",")
                 sets == [i \in 1..Len(parts) |-> ParsePart(parts[i])]
             IN  IF \E i \in 1..Len(parts) : sets[i] = None
                 THEN [keyword |-> FALSE, indices |-> None]
                 ELSE [keyword |-> FALSE,
                       indices |-> Some(SortedList(UNION {Get(sets[i]) : i \in 1..Len(parts)}))]

\* A variant of ResolveSelection in which the keyword always stands for the
\* result list.
ResolveSelection_ResultsOnly(read, albums, results) ==
    IF read.keyword
    THEN IF results # <<>> THEN Some(RangeList(Len(results))) ELSE Some(<<>>)
    ELSE read.indices

\* The part of _parse_selection_input that reads the session: the keyword
\* stands for every index of the album list when there is one, of the result
\* list otherwise.
ResolveSelection(read, albums, results) ==
    IF read.keyword
    THEN IF albums # <<>> THEN Some(RangeList(Len(albums)))
         ELSE IF results # <<>> THEN Some(RangeList(Len(results)))
         ELSE Some(<<>>)
    ELSE read.indices

\* InteractiveSession._parse_selection_input: None when the text is not a
\* selection, otherwise the sorted list of indices.
_parse_selection_input(text, albums, results) ==
    ResolveSelection(ReadSelection(text), albums, results)

\* ------------------------------------------------------------ command words

\* Number of characters a text stands for: the filler character "~" stands
\* for a run of MaxQueryChars ordinary characters, every other for itself.
RECURSIVE TextLen(_)
TextLen(s) ==
    IF s = <<>> THEN 0
    ELSE (IF Head(s) = "~" THEN MaxQueryChars ELSE 1) + TextLen(Tail(s))

\* parts[0] of user_input.split(maxsplit=1), for a stripped non-empty text.
FirstWord(s) ==
    LET k == IndexOf(s, " ") IN IF k = 0 THEN s ELSE SubSeq(s, 1, k - 1)

\* parts[1] of user_input.split(maxsplit=1), "" when there is no second part.
RestArgs(s) ==
    LET k == IndexOf(s, " ") IN IF k = 0 THEN <<>> ELSE LStrip(SubSeq(s, k, Len(s)))

\* re.sub(r'[<>"\']', '', query)
RECURSIVE RemoveHarmful(_)
RemoveHarmful(s) ==
    IF s = <<>> THEN <<>>
    ELSE IF Head(s) \in {"<", ">", "\"", "'"} THEN RemoveHarmful(Tail(s))
    ELSE <<Head(s)>> \o RemoveHarmful(Tail(s))

\* InputValidator.validate_search_query: None stands for ValidationError.
validate_search_query(query) ==
    IF Strip(query) = <<>> THEN None
    ELSE IF TextLen(Strip(query)) > MaxQueryChars THEN None
    ELSE Some(RemoveHarmful(Strip(query)))

Modes == {"tracks", "albums", "artists"}

\* A variant of ModeNamed that ignores the case of the argument.
ModeNamed_AnyCase(args) ==
    IF Lower(args) = <<"t", "r", "a", "c", "k", "s">> THEN Some("tracks")
    ELSE IF Lower(args) = <<"a", "l", "b", "u", "m", "s">> THEN Some("albums")
    ELSE IF Lower(args) = <<"a", "r", "t", "i", "s", "t", "s">> THEN Some("artists")
    ELSE None

\* The mode a text names, for `m <mode>` (args in ['tracks','albums','artists']).
ModeNamed(args) ==
    IF args = <<"t", "r", "a", "c", "k", "s">> THEN Some("tracks")
    ELSE IF args = <<"a", "l", "b", "u", "m", "s">> THEN Some("albums")
    ELSE IF args = <<"a", "r", "t", "i", "s", "t", "s">> THEN Some("artists")
    ELSE None

\* The entity kind the search of a mode returns.
KindOf(mode) ==
    CASE mode = "tracks" -> "track" [] mode = "albums" -> "album"
      [] mode = "artists" -> "artist"

\* ------------------------------------------------------------------- items

\* A search result: its type tag and id; its URL is built from both.
Item(kind, id) == [type |-> kind, id |-> id, url |-> <<kind, id>>]

\* The list a search of `mode` returns when the backends find n items.
SearchResults(mode, n) == [i \in 1..n |-> Item(KindOf(mode), i)]

\* The album list of the profile of artist `artist_id` with m albums
\* (DeemixClient.get_artist_profile: type 'album', url built from the album id).
ProfileAlbums(artist_id, m) == [j \in 1..m |-> Item("album", 10 * artist_id + j)]

\* The 'artist' entry of a profile.
ProfileInfo(artist_id) == [id |-> artist_id]

\* -------------------------------------------------------------------- state

VARIABLES
    pc,                     \* where the session is: "prompt" (waiting for a line),
                            \* "confirm", "batch", "handled" (the handler returned),
                            \* "exited"; in the parser specification "parse", "parsed"
    current_mode,           \* self.current_mode
    current_results,        \* self.current_results
    current_artist_albums,  \* self.current_artist_albums
    current_artist_info,    \* self.current_artist_info ({} or the profile's artist entry)
    search_history,         \* self.search_history
    user_input,             \* the text the last prompt read
    selection_indices,      \* what _parse_selection_input returned for it
    confirm,                \* the reply just read by "Continue? (y/N)", if any
    batch,                  \* the locals of the running or last batch download
    attempts,               \* the client.download calls of the last command, in order
    search_call,            \* the client.search_* call of the last command, if any
    profile_call,           \* the client.get_artist_profile call of the last command, if any
    notice,                 \* the kind of message the handler printed last
    intended,               \* parser specification: the selection the text was written
                            \* from, when it was written from one
    music_search,           \* search specification: MusicClient's clients and the
                            \* search_* call under way
    download_attempt,       \* download specification: DeemixClient's quality setting
                            \* and the _attempt_download call under way
    download_call,          \* download specification: the download(url) call under
                            \* way, what it found configured and on disk
    fetcher,                \* fetcher specification: APIClient's cache directory,
                            \* rate limiter and clock
    formatted,              \* formatting specification: a raw value and what the
                            \* formatters made of it
    error_handler           \* error specification: ErrorHandler's counts, the errors
                            \* handed to it so far and the last call made

vars == <<pc, current_mode, current_results, current_artist_albums,
          current_artist_info, search_history, user_input, selection_indices,
          confirm, batch, attempts, search_call, profile_call, notice, intended,
          music_search, download_attempt, download_call, fetcher, formatted,
          error_handler>>

\* The variables of the session, which the client specifications leave alone.
session_vars ==
    <<pc, current_mode, current_results, current_artist_albums,
      current_artist_info, search_history, user_input, selection_indices,
      confirm, batch, attempts, search_call, profile_call, notice, intended>>

\* MusicClient after __init__ with no search under way: a deemix client that is
\* available, no API client yet.
NoSearch ==
    [deemix_client |-> TRUE, api_client |-> FALSE, at |-> "idle", kind |-> "tracks",
     query |-> <<>>, calls |-> <<>>, result |-> None, raised |-> FALSE]

\* The variables of the client specifications, which the session leaves alone.
client_vars ==
    <<music_search, download_attempt, download_call, fetcher, formatted, error_handler>>

\* DeemixClient with no download under way.
NoAttempt ==
    [quality |-> "320", maxBitrate |-> 3, at |-> "idle", qualities |-> <<>>,
     k |-> 0, tried |-> <<>>, result |-> None]

\* No download(url) call under way: the client's configuration, the URL, what
\* the existing-content check would find for it, and the call's progress.
NoCall ==
    [available |-> TRUE, arl |-> TRUE, url |-> "other", info |-> FALSE,
     folder |-> FALSE, expected_tracks |-> 0, audio_files |-> 0, found |-> FALSE,
     at |-> "idle", checked |-> FALSE, result |-> None, raised |-> FALSE]

\* APIClient before any use: the clock, the rate limiter's fields and the
\* number of passes through it, the cache directory and the last call made.
NoApi ==
    [now |-> 0, last_request_time |-> 0, request_count |-> 0,
     passes |-> 0, first_pass |-> 0,
     cache |-> <<>>, call |-> [op |-> "none"]]

\* No value formatted.
NoFormat == [at |-> "idle"]

\* The names of the exception classes the model raises.
ErrorTypes == {"ValueError", "TypeError", "ValidationError", "NetworkError"}

\* ErrorHandler after __init__: no error counted (a count of 0 is a name the
\* dict does not hold), none handed over, no call made.
NoErrors ==
    [error_counts |-> [error_type \in ErrorTypes |-> 0], handled |-> <<>>,
     call |-> [op |-> "none"]]

\* The batch locals when no batch is under way.
NoBatch ==
    [numbers |-> <<>>, scope |-> "none", i |-> 0,
     successful_downloads |-> <<>>, failed_downloads |-> <<>>,
     raised |-> FALSE, state |-> "none"]

\* InteractiveSession.__init__
Init ==
    /\ pc = "prompt"
    /\ current_mode = "tracks"
    /\ current_results = <<>>
    /\ current_artist_albums = <<>>
    /\ current_artist_info = None
    /\ search_history = <<>>
    /\ user_input = <<>>
    /\ selection_indices = None
    /\ confirm = None
    /\ batch = NoBatch
    /\ attempts = <<>>
    /\ search_call = None
    /\ profile_call = None
    /\ notice = "none"
    /\ intended = None
    /\ music_search = NoSearch
    /\ download_attempt = NoAttempt
    /\ download_call = NoCall
    /\ fetcher = NoApi
    /\ formatted = NoFormat
    /\ error_handler = NoErrors

\* ----------------------------------------------------- the collaborators

\* The sizes of the lists the backends answer with: none, one, the largest.
ResultSizes == {0, 1, MaxResults}
AlbumSizes == {0, 1, MaxAlbums}

\* What client.search_* may do: raise, or return a list of n items.
SearchOutcomes ==
    {[raised |-> TRUE, n |-> 0]} \cup {[raised |-> FALSE, n |-> k] : k \in ResultSizes}

\* What the call self.client.get_artist_profile(...) may do.  MusicClient, the
\* client the session constructs, defines no such method, so the call raises
\* AttributeError ("no_method").  DeemixClient, the backend behind it, defines
\* it and answers {} ("empty": no backend, or the backend failed) or a profile
\* with m albums; these two answers are what a client that forwards the call
\* gives.
ProfileOutcomes ==
    {[kind |-> "no_method", m |-> 0], [kind |-> "empty", m |-> 0]}
        \cup {[kind |-> "profile", m |-> k] : k \in AlbumSizes}

\* What client.download may do: return True, return False, raise an
\* exception, or be interrupted from the keyboard.
DownloadOutcomes == {"ok", "fail", "raise", "interrupt"}

\* What the "Continue? (y/N)" prompt may read.
Replies == {<<"y">>, <<" ", "Y", "e", "s">>, <<"n">>, <<>>}

\* ----------------------------------------------------------- command routing

W_q == <<"q">>
W_quit == <<"q", "u", "i", "t">>
W_h == <<"h">>
W_help == <<"h", "e", "l", "p">>
W_status == <<"s", "t", "a", "t", "u", "s">>
W_s == <<"s">>
W_search == <<"s", "e", "a", "r", "c", "h">>
W_sa == <<"s", "a">>
W_st == <<"s", "t">>
W_m == <<"m">>
W_mode == <<"m", "o", "d", "e">>
W_l == <<"l">>
W_list == <<"l", "i", "s", "t">>
W_back == <<"b", "a", "c", "k">>
W_b == <<"b">>

\* A variant of Route that takes unknown text for a request for help.
Route_UnknownIsHelp(cmd, args, sel) ==
        IF sel # None
        THEN IF current_mode = "artists" /\ current_artist_albums = <<>>
             THEN IF Len(Get(sel)) = 1 THEN "view_profile" ELSE "reject_multi"
             ELSE IF current_artist_albums # <<>> THEN "download_albums"
             ELSE "download_items"
        ELSE IF cmd \in {W_q, W_quit} THEN "quit"
        ELSE IF cmd = W_status THEN "status"
        ELSE IF cmd \in {W_s, W_search, W_sa, W_st}
             THEN IF args = <<>> THEN "usage" ELSE "search"
        ELSE IF cmd \in {W_m, W_mode} THEN "mode"
        ELSE IF cmd \in {W_l, W_list} THEN "list"
        ELSE IF cmd \in {W_back, W_b} THEN "back"
        ELSE "help"

\* The branch of _handle_command that a stripped, non-empty input takes in
\* the current state, in the order the code tests them: sel is what
\* _parse_selection_input returned for the input, cmd and args are
\* parts[0].lower() and parts[1] of user_input.split(maxsplit=1).
Route(cmd, args, sel) ==
        IF sel # None
        THEN IF current_mode = "artists" /\ current_artist_albums = <<>>
             THEN IF Len(Get(sel)) = 1 THEN "view_profile" ELSE "reject_multi"
             ELSE IF current_artist_albums # <<>> THEN "download_albums"
             ELSE "download_items"
        ELSE IF cmd \in {W_q, W_quit} THEN "quit"
        ELSE IF cmd \in {W_h, W_help} THEN "help"
        ELSE IF cmd = W_status THEN "status"
        ELSE IF cmd \in {W_s, W_search, W_sa, W_st}
             THEN IF args = <<>> THEN "usage" ELSE "search"
        ELSE IF cmd \in {W_m, W_mode} THEN "mode"
        ELSE IF cmd \in {W_l, W_list} THEN "list"
        ELSE IF cmd \in {W_back, W_b} THEN "back"
        ELSE "implicit_search"

\* The mode a search command sets before searching.
SearchMode(cmd, mode) ==
    IF cmd \in {W_s, W_search} THEN "tracks"
    ELSE IF cmd = W_sa THEN "albums"
    ELSE IF cmd = W_st THEN "artists"
    ELSE mode

\* ------------------------------------------------------------ session inputs

\* The lines the session specification types at the prompt.
Inputs ==
    { <<>>, <<" ">>,
      <<"1">>, <<"2">>, <<"9">>, <<"2", ",", "4", ",", "2">>,
      <<"1", ",", "9">>, <<"1", "-", "4">>,
      <<"A", "L", "L">>, <<"*">>,
      <<"5", "-", "1">>, <<"0", "-", "-", "0">>,
      W_q, W_quit, W_h, W_help, W_status, W_l, W_list, W_back, W_b, W_s, W_sa, W_st, W_m,
      <<"s", " ", "x">>, <<"s", "a", " ", "x">>, <<"s", "t", " ", "x">>,
      <<"S", "T", " ", "x", "'">>, <<"s", " ", "~", "x">>,
      <<"m", " ", "t", "r", "a", "c", "k", "s">>,
      <<"m", " ", "a", "l", "b", "u", "m", "s">>,
      <<"m", " ", "a", "r", "t", "i", "s", "t", "s">>,
      <<"m", "o", "d", "e", " ", "a", "l", "b", "u", "m", "s">>,
      <<"M", " ", "T", "r", "a", "c", "k", "s">>,
      <<"m", " ", "x">>, <<"x">>, <<"x", "'">>, <<"~", "x">> }

\* ------------------------------------------------------------ the handlers

\* The client calls and batch locals of the previous command are forgotten
\* when a new line is read.
FreshCommand ==
    /\ confirm' = None
    /\ batch' = NoBatch
    /\ attempts' = <<>>
    /\ search_call' = None
    /\ profile_call' = None

\* What reading each line of Inputs gives, whatever the session's state: the
\* stripped text, its reading as a selection, its command word and arguments.
Typed ==
    [raw \in Inputs |->
        [text |-> Strip(raw),
         read |-> ReadSelection(Strip(raw)),
         cmd |-> Lower(FirstWord(Strip(raw))),
         args |-> RestArgs(Strip(raw))]]

\* _main_loop reads a line and _handle_command parses it first as a selection.
ReadInput(raw) ==
    /\ pc = "prompt"
    /\ Typed[raw].text # <<>>
    /\ user_input' = Typed[raw].text
    /\ selection_indices' =
           ResolveSelection(Typed[raw].read, current_artist_albums, current_results)
    /\ UNCHANGED <<intended, client_vars>>

\* _main_loop: an empty line is skipped and the prompt shown again.
EmptyInput(raw) ==
    /\ pc = "prompt"
    /\ Typed[raw].text = <<>>
    /\ UNCHANGED vars

\* q / quit: _handle_command returns False and the loop ends.
Quit(inp, route) ==
    /\ route = "quit"
    /\ notice' = "goodbye"
    /\ pc' = "exited"
    /\ FreshCommand
    /\ UNCHANGED <<current_mode, current_results, current_artist_albums,
                   current_artist_info, search_history>>

\* h, status, l and a search command without a query only print.
PrintOnly(inp, route) ==
    /\ route \in {"help", "status", "list", "usage"}
    /\ notice' = route
    /\ FreshCommand
    /\ pc' = "handled"
    /\ UNCHANGED <<current_mode, current_results, current_artist_albums,
                   current_artist_info, search_history>>

\* A variant of ModeSwitched that leaves the profile view as it is.
ModeSwitched_KeepProfile(mode, albums, info) == <<mode, albums, info>>

\* What `m <mode>` with a valid mode leaves in (mode, album list, artist
\* info).
ModeSwitched(mode, albums, info) == <<mode, <<>>, None>>

\* m [mode]: a valid mode is set and the profile cleared; otherwise a notice.
ModeCommand(inp, route) ==
    /\ route = "mode"
    /\ LET named == ModeNamed(inp.args)
           switched == ModeSwitched(Get(named), current_artist_albums, current_artist_info)
       IN  IF named # None
           THEN /\ current_mode' = switched[1]
                /\ current_artist_albums' = switched[2]
                /\ current_artist_info' = switched[3]
                /\ notice' = "mode_switched"
           ELSE /\ UNCHANGED <<current_mode, current_artist_albums, current_artist_info>>
                /\ notice' = IF inp.args = <<>> THEN "mode_shown" ELSE "mode_invalid"
    /\ FreshCommand
    /\ pc' = "handled"
    /\ UNCHANGED <<current_results, search_history>>

\* A variant of BackEffect that empties the album list and keeps the artist
\* info.
BackEffect_KeepInfo(albums, info) == <<<<>>, info>>

\* A variant of BackEffect that empties both fields whatever they hold.
BackEffect_AlwaysClear(albums, info) == <<<<>>, None>>

\* What the `back` branch leaves in (album list, artist info).
BackEffect(albums, info) ==
    IF albums # <<>> THEN <<<<>>, None>> ELSE <<albums, info>>

\* back / b: leaves the profile view when one is active.
Back(inp, route) ==
    /\ route = "back"
    /\ notice' = IF current_artist_albums # <<>> THEN "back_to_results"
                  ELSE "nothing_to_go_back_to"
    /\ current_artist_albums' = BackEffect(current_artist_albums, current_artist_info)[1]
    /\ current_artist_info' = BackEffect(current_artist_albums, current_artist_info)[2]
    /\ FreshCommand
    /\ pc' = "handled"
    /\ UNCHANGED <<current_mode, current_results, search_history>>

\* A variant of _search that keeps the previous results when nothing is found.
_search_KeepWhenEmpty(mode, query, out) ==
    LET validated == validate_search_query(query)
    IN  IF validated = None
        THEN [results |-> current_results, history |-> search_history, call |-> None,
              notice |-> "error"]
        ELSE IF out.raised
        THEN [results |-> current_results, history |-> search_history,
              notice |-> "error",
              call |-> Some([mode |-> mode, query |-> Get(validated), returned |-> None])]
        ELSE [results |-> IF out.n = 0 THEN current_results
                          ELSE SearchResults(mode, out.n),
              history |-> Append(search_history, Get(validated)),
              notice |-> IF out.n = 0 THEN "no_results_found" ELSE "results",
              call |-> Some([mode |-> mode, query |-> Get(validated),
                             returned |-> Some(SearchResults(mode, out.n))])]

\* _search: what it leaves in (result list, history) and the client call it
\* makes, for a search of `query` in `mode` to which the client answers `out`.
_search(mode, query, out) ==
    LET validated == validate_search_query(query)
    IN  IF validated = None
        THEN [results |-> current_results, history |-> search_history, call |-> None,
              notice |-> "error"]
        ELSE IF out.raised
        THEN [results |-> current_results, history |-> search_history,
              notice |-> "error",
              call |-> Some([mode |-> mode, query |-> Get(validated), returned |-> None])]
        ELSE [results |-> SearchResults(mode, out.n),
              history |-> Append(search_history, Get(validated)),
              notice |-> IF out.n = 0 THEN "no_results_found" ELSE "results",
              call |-> Some([mode |-> mode, query |-> Get(validated),
                             returned |-> Some(SearchResults(mode, out.n))])]

\* s / sa / st <query>: set the mode, clear the profile, search.
SearchCommand(inp, route) ==
    /\ route = "search"
    /\ Len(search_history) < MaxHistory
    /\ \E out \in SearchOutcomes :
           LET mode == SearchMode(inp.cmd, current_mode)
               done == _search(mode, inp.args, out)
           IN  /\ current_mode' = mode
               /\ current_artist_albums' = <<>>
               /\ current_artist_info' = None
               /\ current_results' = done.results
               /\ search_history' = done.history
               /\ search_call' = done.call
               /\ notice' = done.notice
    /\ confirm' = None
    /\ batch' = NoBatch
    /\ attempts' = <<>>
    /\ profile_call' = None
    /\ pc' = "handled"

\* Any other text: clear the profile and search for it in the current mode.
ImplicitSearch(inp, route) ==
    /\ route = "implicit_search"
    /\ Len(search_history) < MaxHistory
    /\ \E out \in SearchOutcomes :
           LET done == _search(current_mode, inp.text, out)
           IN  /\ current_artist_albums' = <<>>
               /\ current_artist_info' = None
               /\ current_results' = done.results
               /\ search_history' = done.history
               /\ search_call' = done.call
               /\ notice' = done.notice
    /\ confirm' = None
    /\ batch' = NoBatch
    /\ attempts' = <<>>
    /\ profile_call' = None
    /\ pc' = "handled"
    /\ UNCHANGED current_mode

\* An interrupt while the client is searching: the mode is set and the profile
\* cleared already (s / sa / st) or the profile cleared (any other text), the
\* query is valid, and the exception leaves _search and _handle_command, neither
\* of which catches it. _main_loop catches KeyboardInterrupt and breaks; a
\* cancellation of the task leaves _main_loop as well.
SearchInterrupted(inp, route) ==
    /\ route \in {"search", "implicit_search"}
    /\ LET mode == IF route = "search" THEN SearchMode(inp.cmd, current_mode) ELSE current_mode
           query == IF route = "search" THEN inp.args ELSE inp.text
           validated == validate_search_query(query)
       IN  /\ validated # None
           /\ current_mode' = mode
           /\ search_call' = Some([mode |-> mode, query |-> Get(validated), returned |-> None])
    /\ current_artist_albums' = <<>>
    /\ current_artist_info' = None
    /\ notice' = "goodbye"
    /\ confirm' = None
    /\ batch' = NoBatch
    /\ attempts' = <<>>
    /\ profile_call' = None
    /\ pc' = "exited"
    /\ UNCHANGED <<current_results, search_history>>

\* Artists mode, no profile view, a selection of other than one index.
SelectRejected(inp, route) ==
    /\ route = "reject_multi"
    /\ notice' = "single_selection_only"
    /\ FreshCommand
    /\ pc' = "handled"
    /\ UNCHANGED <<current_mode, current_results, current_artist_albums,
                   current_artist_info, search_history>>

\* Whether _view_artist_profile gets as far as asking the client.
ProfileRequested(number) ==
    /\ current_results # <<>>
    /\ number >= 1 /\ number <= Len(current_results)
    /\ current_results[number].type = "artist"

\* _view_artist_profile: what it leaves in (album list, artist info) when the
\* client answers `out` to the request for the profile of `artist_id`.
StoreProfile(artist_id, out) ==
    IF out.kind = "profile"
    THEN <<ProfileAlbums(artist_id, out.m), Some(ProfileInfo(artist_id))>>
    ELSE <<current_artist_albums, current_artist_info>>

\* Artists mode, no profile view, one index: _view_artist_profile.
ViewArtistProfile(inp, route) ==
    /\ route = "view_profile"
    /\ LET number == Get(selection_indices')[1]
       IN  IF ProfileRequested(number)
           THEN \E out \in ProfileOutcomes :
                LET artist_id == current_results[number].id
                IN  /\ profile_call' = Some([artist_id |-> artist_id, answer |-> out.kind])
                    /\ current_artist_albums' = StoreProfile(artist_id, out)[1]
                    /\ current_artist_info' = StoreProfile(artist_id, out)[2]
                    /\ notice' = IF out.kind = "profile" THEN "profile"
                                  ELSE IF out.kind = "empty" THEN "could_not_load_profile"
                                  ELSE "error"
           ELSE /\ profile_call' = None
                /\ notice' = IF current_results = <<>> THEN "nothing_available"
                              ELSE IF number < 1 \/ number > Len(current_results)
                                   THEN "invalid_numbers"
                              ELSE "not_an_artist"
                /\ UNCHANGED <<current_artist_albums, current_artist_info>>
    /\ confirm' = None
    /\ batch' = NoBatch
    /\ attempts' = <<>>
    /\ search_call' = None
    /\ pc' = "handled"
    /\ UNCHANGED <<current_mode, current_results, search_history>>

\* The list a selection is resolved against: the album list in a profile
\* view (_download_albums_from_artist), the result list otherwise
\* (_download_by_numbers).
ScopeOf(route) == IF route = "download_albums" THEN "albums" ELSE "results"

\* A variant of ScopeItems that always resolves against the result list.
ScopeItems_ResultsOnly(scope) == current_results

ScopeItems(scope) ==
    IF scope = "albums" THEN current_artist_albums ELSE current_results

\* A variant of InvalidNumbers that checks the first index only.
InvalidNumbers_FirstOnly(nums, items) ==
    IF nums # <<>> /\ (nums[1] < 1 \/ nums[1] > Len(items)) THEN <<nums[1]>> ELSE <<>>

\* invalid_numbers = [n for n in numbers if n < 1 or n > len(items)]
InvalidNumbers(nums, items) ==
    SelectSeq(nums, LAMBDA n : n < 1 \/ n > Len(items))

\* numbers = sorted(list(set(numbers)))
DedupSorted(nums) == SortedList(Elems(nums))

\* The batch size above which the user is asked to confirm.
ConfirmThreshold(scope) ==
    IF scope = "albums" THEN ConfirmThresholdAlbums ELSE ConfirmThresholdResults

\* Whether the selection passes the checks that precede any download.
SelectionAccepted(nums, items) ==
    items # <<>> /\ InvalidNumbers(nums, items) = <<>>

\* One client.download call, as the session sees it.
Attempt(number, items, out) ==
    [number |-> number, url |-> items[number].url, ok |-> (out = "ok")]

\* A selection in tracks/albums mode or in a profile view that is refused:
\* empty scope, or some index out of range.
DownloadRejected(inp, route) ==
    /\ route \in {"download_albums", "download_items"}
    /\ ~SelectionAccepted(Get(selection_indices'), ScopeItems(ScopeOf(route)))
    /\ notice' = IF ScopeItems(ScopeOf(route)) = <<>> THEN "nothing_available"
                  ELSE "invalid_numbers"
    /\ FreshCommand
    /\ pc' = "handled"
    /\ UNCHANGED <<current_mode, current_results, current_artist_albums,
                   current_artist_info, search_history>>

\* A selection of one index: _download_by_number / _download_album_from_artist.
DownloadSingle(inp, route) ==
    /\ route \in {"download_albums", "download_items"}
    /\ LET scope == ScopeOf(route)
           items == ScopeItems(scope)
           nums == DedupSorted(Get(selection_indices'))
       IN  /\ SelectionAccepted(Get(selection_indices'), items)
           /\ Len(nums) = 1
           /\ \E out \in DownloadOutcomes :
                  /\ attempts' = <<Attempt(nums[1], items, out)>>
                  /\ notice' = CASE out = "ok" -> "download_completed"
                                  [] out = "fail" -> "download_failed"
                                  [] out = "raise" -> "error"
                                  [] out = "interrupt" -> "cancelled_by_user"
           /\ batch' = [NoBatch EXCEPT !.numbers = nums, !.scope = scope]
    /\ confirm' = None
    /\ search_call' = None
    /\ profile_call' = None
    /\ pc' = "handled"
    /\ UNCHANGED <<current_mode, current_results, current_artist_albums,
                   current_artist_info, search_history>>

\* A selection of several indices: the batch starts, after a confirmation
\* prompt when it is larger than the threshold.
DownloadBatchStart(inp, route) ==
    /\ route \in {"download_albums", "download_items"}
    /\ LET scope == ScopeOf(route)
           items == ScopeItems(scope)
           nums == DedupSorted(Get(selection_indices'))
       IN  /\ SelectionAccepted(Get(selection_indices'), items)
           /\ Len(nums) # 1
           /\ IF Len(nums) > ConfirmThreshold(scope)
              THEN /\ pc' = "confirm"
                   /\ notice' = "continue?"
                   /\ batch' = [NoBatch EXCEPT !.numbers = nums, !.scope = scope,
                                               !.state = "confirming"]
              ELSE /\ pc' = "batch"
                   /\ notice' = "downloading"
                   /\ batch' = [NoBatch EXCEPT !.numbers = nums, !.scope = scope,
                                               !.i = 1, !.state = "running"]
    /\ confirm' = None
    /\ attempts' = <<>>
    /\ search_call' = None
    /\ profile_call' = None
    /\ UNCHANGED <<current_mode, current_results, current_artist_albums,
                   current_artist_info, search_history>>

\* A variant of IsYes that compares the reply as typed.
IsYes_AsTyped(reply) == reply \in {<<"y">>, <<"y", "e", "s">>}

\* confirm not in ['y', 'yes'] cancels the batch.
IsYes(reply) == Lower(Strip(reply)) \in {<<"y">>, <<"y", "e", "s">>}

\* The reply to "Continue? (y/N)".
ConfirmReply(reply) ==
    /\ pc = "confirm"
    /\ confirm' = Some(reply)
    /\ IF IsYes(reply)
       THEN /\ pc' = "batch"
            /\ batch' = [batch EXCEPT !.i = 1, !.state = "running"]
            /\ notice' = "downloading"
       ELSE /\ pc' = "handled"
            /\ batch' = [batch EXCEPT !.state = "cancelled"]
            /\ notice' = "download_cancelled"
    /\ UNCHANGED <<current_mode, current_results, current_artist_albums,
                   current_artist_info, search_history, user_input,
                   selection_indices, attempts, search_call, profile_call, intended,
                   client_vars>>

\* An interrupt or end of input at the confirmation prompt: the handler
\* catches it and returns to the main prompt.
ConfirmInterrupt ==
    /\ pc = "confirm"
    /\ pc' = "handled"
    /\ notice' = "error"
    /\ batch' = [batch EXCEPT !.state = "cancelled"]
    /\ UNCHANGED <<current_mode, current_results, current_artist_albums,
                   current_artist_info, search_history, user_input,
                   selection_indices, confirm, attempts, search_call, profile_call, intended,
                   client_vars>>

\* A variant of NumberAt that walks the list from its end.
NumberAt_Reversed(nums, i) == nums[Len(nums) + 1 - i]

\* The index the batch loop downloads at position i of `numbers`.
NumberAt(nums, i) == nums[i]

\* A variant of AfterItem in which a failed item ends the batch.
AfterItem_StopOnFailure(b, out) ==
    LET number == b.numbers[b.i]
        recorded ==
            IF out = "ok"
            THEN [b EXCEPT !.successful_downloads = Append(@, number)]
            ELSE IF out = "fail"
            THEN [b EXCEPT !.failed_downloads = Append(@, number)]
            ELSE IF out = "raise"
            THEN [b EXCEPT !.failed_downloads = Append(@, number), !.raised = TRUE]
            ELSE b
    IN  IF out = "interrupt" THEN [recorded EXCEPT !.state = "interrupted"]
        ELSE IF out # "ok" \/ b.i >= Len(b.numbers) THEN [recorded EXCEPT !.state = "finished"]
        ELSE [recorded EXCEPT !.i = b.i + 1]

\* _download_multiple_items, one pass of its loop: the batch locals after the
\* client answered `out` for the item at position b.i.
AfterItem(b, out) ==
    LET number == NumberAt(b.numbers, b.i)
        recorded ==
            IF out = "ok"
            THEN [b EXCEPT !.successful_downloads = Append(@, number)]
            ELSE IF out = "fail"
            THEN [b EXCEPT !.failed_downloads = Append(@, number)]
            ELSE IF out = "raise"
            THEN [b EXCEPT !.failed_downloads = Append(@, number), !.raised = TRUE]
            ELSE b
    IN  IF out = "interrupt" THEN [recorded EXCEPT !.state = "interrupted"]
        ELSE IF b.i >= Len(b.numbers) THEN [recorded EXCEPT !.state = "finished"]
        ELSE [recorded EXCEPT !.i = b.i + 1]

\* One pass of the batch loop: download the next item and record the outcome;
\* after the last item (or an interrupt) the summary is printed.
DownloadNext(out) ==
    /\ pc = "batch"
    /\ attempts' = Append(attempts,
                          Attempt(NumberAt(batch.numbers, batch.i), ScopeItems(batch.scope), out))
    /\ batch' = AfterItem(batch, out)
    /\ pc' = IF batch'.state = "running" THEN "batch" ELSE "handled"
    /\ notice' = IF batch'.state = "running" THEN "downloading" ELSE "summary"
    /\ confirm' = None
    /\ UNCHANGED <<current_mode, current_results, current_artist_albums,
                   current_artist_info, search_history, user_input,
                   selection_indices, search_call, profile_call, intended,
                   client_vars>>

\* An interrupt during the pause between two items leaves the loop.
SleepInterrupt ==
    /\ pc = "batch"
    /\ batch.i > 1
    /\ batch' = [batch EXCEPT !.state = "interrupted"]
    /\ pc' = "handled"
    /\ notice' = "summary"
    /\ UNCHANGED <<current_mode, current_results, current_artist_albums,
                   current_artist_info, search_history, user_input,
                   selection_indices, confirm, attempts, search_call, profile_call, intended,
                   client_vars>>

\* An interrupt during a batch when asyncio.run owns the signal (Python 3.11
\* and later): the blocking download in progress runs to its end and is
\* recorded, the task is cancelled at `await asyncio.sleep(0.5)`, and the
\* CancelledError is caught by none of `except KeyboardInterrupt` and
\* `except Exception` in _download_multiple_items, _download_by_numbers,
\* _handle_command and _main_loop: no summary is printed and the session ends.
SleepCancelled ==
    /\ pc = "batch"
    /\ batch.i > 1
    /\ ~batch.raised
    /\ batch' = [batch EXCEPT !.state = "task_cancelled"]
    /\ pc' = "exited"
    /\ notice' = "none"
    /\ UNCHANGED <<current_mode, current_results, current_artist_albums,
                   current_artist_info, search_history, user_input,
                   selection_indices, confirm, attempts, search_call, profile_call, intended,
                   client_vars>>

\* _main_loop reads one line and _handle_command takes the branch the line
\* selects.
_handle_command(raw) ==
    /\ ReadInput(raw)
    /\ LET inp == Typed[raw]
           route == Route(inp.cmd, inp.args, selection_indices')
       IN  \/ Quit(inp, route)
           \/ PrintOnly(inp, route)
           \/ ModeCommand(inp, route)
           \/ Back(inp, route)
           \/ SearchCommand(inp, route)
           \/ ImplicitSearch(inp, route)
           \/ SearchInterrupted(inp, route)
           \/ SelectRejected(inp, route)
           \/ ViewArtistProfile(inp, route)
           \/ DownloadRejected(inp, route)
           \/ DownloadSingle(inp, route)
           \/ DownloadBatchStart(inp, route)

\* An interrupt or end of input at the main prompt ends the session: no line
\* was read and no command handled.
PromptInterrupt ==
    /\ pc = "prompt"
    /\ pc' = "exited"
    /\ notice' = "goodbye"
    /\ user_input' = <<>>
    /\ selection_indices' = None
    /\ FreshCommand
    /\ UNCHANGED <<current_mode, current_results, current_artist_albums,
                   current_artist_info, search_history, intended,
                   client_vars>>

\* _main_loop: the handler returned True, its locals are gone and the prompt is
\* shown again.
_main_loop ==
    /\ pc = "handled"
    /\ pc' = "prompt"
    /\ notice' = "none"
    /\ user_input' = <<>>
    /\ selection_indices' = None
    /\ FreshCommand
    /\ UNCHANGED <<current_mode, current_results, current_artist_albums,
                   current_artist_info, search_history, intended,
                   client_vars>>

Next ==
    \/ _main_loop
    \/ \E raw \in Inputs : EmptyInput(raw)
    \/ \E raw \in Inputs : _handle_command(raw)
    \/ \E reply \in Replies : ConfirmReply(reply)
    \/ ConfirmInterrupt
    \/ \E out \in DownloadOutcomes : DownloadNext(out)
    \/ SleepInterrupt
    \/ SleepCancelled
    \/ PromptInterrupt

Spec == Init /\ [][Next]_vars

\* ------------------------------------------------- the parser specification
\* _parse_selection_input applied once to a text and a session, the text
\* either written from a selection (comma-separated integers and ranges) or
\* any text over a small alphabet.

\* Most parts a written selection has.
MaxParts == 3

\* The integers written selections are made of.
PartNumbers == {1, 3, 5, 8, 12}
\* The ends of the ranges written selections are made of.
RangeEnds == {3, 5}

\* A part of a selection: the integer lo, or the range lo-hi (start <= end).
Parts ==
    {[lo |-> n, hi |-> n, range |-> FALSE] : n \in PartNumbers}
        \cup {p \in [lo : RangeEnds, hi : RangeEnds, range : {TRUE}] : p.lo <= p.hi}

\* A selection: one to MaxParts parts.
Selections == UNION {[1..n -> Parts] : n \in 1..MaxParts}

\* The indices a selection denotes.
Denoted(sel) == UNION {sel[i].lo..sel[i].hi : i \in 1..Len(sel)}

DigitChar(d) ==
    CASE d = 0 -> "0" [] d = 1 -> "1" [] d = 2 -> "2" [] d = 3 -> "3"
      [] d = 4 -> "4" [] d = 5 -> "5" [] d = 6 -> "6" [] d = 7 -> "7"
      [] d = 8 -> "8" [] d = 9 -> "9"

\* The decimal numeral of a natural number.
RECURSIVE Numeral(_)
Numeral(n) ==
    IF n < 10 THEN <<DigitChar(n)>> ELSE Numeral(n \div 10) \o <<DigitChar(n % 10)>>

\* A part as the user writes it, with blanks around the hyphen when `spaced`.
WritePart(p, spaced) ==
    IF p.range
    THEN Numeral(p.lo) \o (IF spaced THEN <<" ", "-", " ">> ELSE <<"-">>) \o Numeral(p.hi)
    ELSE Numeral(p.lo)

\* A selection as the user writes it: the parts joined by commas, with blanks
\* after the commas and around the whole when `spaced`.
RECURSIVE WriteParts(_, _)
WriteParts(sel, spaced) ==
    IF Len(sel) = 1 THEN WritePart(sel[1], spaced)
    ELSE WritePart(sel[1], spaced) \o (IF spaced THEN <<",", " ">> ELSE <<",">>)
             \o WriteParts(Tail(sel), spaced)

Write(sel, spaced) ==
    IF spaced THEN <<" ">> \o WriteParts(sel, spaced) \o <<" ">> ELSE WriteParts(sel, spaced)

\* The characters of the free texts: digits, the separators, a blank and a
\* letter outside the selection syntax.
ParseAlphabet == {"0", "1", ",", "-", " ", "a"}

\* Every text over ParseAlphabet of at most MaxInputLen characters.
FreeTexts == UNION {[1..n -> ParseAlphabet] : n \in 0..MaxInputLen}

\* The keyword texts.
KeywordTexts ==
    {<<"a", "l", "l">>, <<"A", "L", "L">>, <<" ", "A", "l", "l">>, <<"*">>, <<"*", " ">>}

\* The (album list, result list) pairs a session can hold when a line is
\* parsed: nothing, artist results without a profile view, artist results
\* with one.
ParseScopes ==
    {[albums |-> <<>>, results |-> <<>>],
     [albums |-> <<>>, results |-> SearchResults("artists", MaxResults)],
     [albums |-> ProfileAlbums(1, MaxAlbums), results |-> SearchResults("artists", MaxResults)]}

\* The cases the parser specification starts from.
ParseCases ==
    {[text |-> Write(sel, spaced), intended |-> Some(sel), scope |-> sc] :
         sel \in Selections, spaced \in BOOLEAN,
         sc \in {[albums |-> <<>>, results |-> SearchResults("artists", MaxResults)]}}
      \cup {[text |-> t, intended |-> None, scope |-> sc] :
               t \in FreeTexts,
               sc \in {[albums |-> <<>>, results |-> SearchResults("artists", MaxResults)]}}
      \cup {[text |-> t, intended |-> None, scope |-> sc] :
               t \in KeywordTexts, sc \in ParseScopes}

InitParse ==
    /\ pc = "parse"
    /\ \E c \in ParseCases :
           /\ user_input = c.text
           /\ intended = c.intended
           /\ current_artist_albums = c.scope.albums
           /\ current_results = c.scope.results
           /\ current_artist_info =
                  IF c.scope.albums = <<>> THEN None ELSE Some(ProfileInfo(1))
           /\ current_mode = IF c.scope.results = <<>> THEN "tracks" ELSE "artists"
    /\ search_history = <<>>
    /\ selection_indices = None
    /\ confirm = None
    /\ batch = NoBatch
    /\ attempts = <<>>
    /\ search_call = None
    /\ profile_call = None
    /\ notice = "none"
    /\ music_search = NoSearch
    /\ download_attempt = NoAttempt
    /\ download_call = NoCall
    /\ fetcher = NoApi
    /\ formatted = NoFormat
    /\ error_handler = NoErrors

\* numbers = self._parse_selection_input(user_input)
ParseSelection ==
    /\ pc = "parse"
    /\ pc' = "parsed"
    /\ selection_indices' =
           _parse_selection_input(user_input, current_artist_albums, current_results)
    /\ UNCHANGED <<current_mode, current_results, current_artist_albums,
                   current_artist_info, search_history, user_input, confirm,
                   batch, attempts, search_call, profile_call, notice, intended,
                   client_vars>>

NextParse == ParseSelection

SpecParse == InitParse /\ [][NextParse]_vars

\* ------------------------------------------------- the search specification
\* MusicClient.search_tracks / search_albums / search_artists, which differ in
\* the kind of item searched for only, called any number of times on a client
\* whose deemix client is or is not available and whose API client may or may
\* not have been created by __aenter__.

\* One call on a backend as the search method sees it: the search itself, or
\* for the API client the creation that precedes it.
BackendCall(ms, backend, stage, out) ==
    [backend |-> backend, stage |-> stage, query |-> ms.query,
     raised |-> out.raised, n |-> out.n]

\* The queries the caller searches for.
SearchQueries == {<<"x">>, <<"5", "-", "1">>}

\* `if results:` on what a backend answered.
NonEmpty(out) == ~out.raised /\ out.n > 0

\* `return results` / `return []`
Returned(ms, from, n) ==
    [ms EXCEPT !.at = "returned",
               !.result = Some([from |-> from, items |-> SearchResults(ms.kind, n)])]

\* A variant of AfterPrimary that returns whatever list the deemix client
\* answers, empty or not.
AfterPrimary_ReturnsEmpty(ms, out) ==
    LET called == [ms EXCEPT !.calls = Append(@, BackendCall(ms, "deemix", "search", out))]
    IN  IF ~out.raised THEN Returned(called, "deemix", out.n)
        ELSE [called EXCEPT !.at = "ensure"]

\* The deemix client answered `out`: a non-empty list is returned, an empty
\* one or an exception (caught and logged) leads on to the API client.
AfterPrimary(ms, out) ==
    LET called == [ms EXCEPT !.calls = Append(@, BackendCall(ms, "deemix", "search", out))]
    IN  IF NonEmpty(out) THEN Returned(called, "deemix", out.n)
        ELSE [called EXCEPT !.at = "ensure"]

\* _ensure_api_client followed by `if self.api_client:`; created tells whether
\* the creation succeeds when there is no API client yet. A failed creation is
\* caught inside _ensure_api_client and the search returns [].
AfterEnsure(ms, created) ==
    IF ms.api_client THEN [ms EXCEPT !.at = "secondary"]
    ELSE IF created THEN [ms EXCEPT !.api_client = TRUE, !.at = "secondary"]
    ELSE Returned([ms EXCEPT !.calls = Append(@, BackendCall(ms, "api", "init",
                                                   [raised |-> TRUE, n |-> 0]))],
                  "none", 0)

\* The API client answered `out`: a non-empty list is returned, anything else
\* ends in `return []`.
AfterSecondary(ms, out) ==
    LET called == [ms EXCEPT !.calls = Append(@, BackendCall(ms, "api", "search", out))]
    IN  IF NonEmpty(out) THEN Returned(called, "api", out.n)
        ELSE Returned(called, "none", 0)

InitSearch ==
    /\ pc = "client"
    /\ current_mode = "tracks"
    /\ current_results = <<>>
    /\ current_artist_albums = <<>>
    /\ current_artist_info = None
    /\ search_history = <<>>
    /\ user_input = <<>>
    /\ selection_indices = None
    /\ confirm = None
    /\ batch = NoBatch
    /\ attempts = <<>>
    /\ search_call = None
    /\ profile_call = None
    /\ notice = "none"
    /\ intended = None
    /\ \E deemix \in BOOLEAN, api \in BOOLEAN :
           music_search = [NoSearch EXCEPT !.deemix_client = deemix, !.api_client = api]
    /\ download_attempt = NoAttempt
    /\ download_call = NoCall
    /\ fetcher = NoApi
    /\ formatted = NoFormat
    /\ error_handler = NoErrors

\* The caller invokes search_<kind>.
SearchCalled(kind, query) ==
    /\ music_search.at \in {"idle", "returned"}
    /\ music_search' = [music_search EXCEPT !.at = "primary", !.kind = kind,
                                             !.query = query,
                                             !.calls = <<>>, !.result = None]
    /\ UNCHANGED <<session_vars, error_handler, download_attempt, download_call, fetcher, formatted>>

\* if self.deemix_client and self.client_status['deemix_client']: try it.
PrimarySearch ==
    /\ music_search.at = "primary"
    /\ IF music_search.deemix_client
       THEN \E out \in SearchOutcomes : music_search' = AfterPrimary(music_search, out)
       ELSE music_search' = [music_search EXCEPT !.at = "ensure"]
    /\ UNCHANGED <<session_vars, error_handler, download_attempt, download_call, fetcher, formatted>>

\* await self._ensure_api_client(); if self.api_client: ...
EnsureApiClient ==
    /\ music_search.at = "ensure"
    /\ \E created \in BOOLEAN : music_search' = AfterEnsure(music_search, created)
    /\ UNCHANGED <<session_vars, error_handler, download_attempt, download_call, fetcher, formatted>>

\* results = await self.api_client.search_<kind>(query, limit)
SecondarySearch ==
    /\ music_search.at = "secondary"
    /\ \E out \in SearchOutcomes : music_search' = AfterSecondary(music_search, out)
    /\ UNCHANGED <<session_vars, error_handler, download_attempt, download_call, fetcher, formatted>>

NextSearch ==
    \/ \E kind \in Modes, query \in SearchQueries : SearchCalled(kind, query)
    \/ PrimarySearch
    \/ EnsureApiClient
    \/ SecondarySearch

SpecSearch == InitSearch /\ [][NextSearch]_vars

\* ------------------------------------------- the rate limiter specification
\* APIClient._rate_limit called again and again at any times. Time is counted
\* in ticks; the three settings of RateLimitConfig are given in ticks and
\* requests.

\* 1.0 / rate_limit.requests_per_second, in ticks.
MinInterval == 2

\* rate_limit.cooldown_period, in ticks.
CooldownPeriod == 4

\* rate_limit.burst_size
BurstSize == 3

\* The ticks the rate limiter specification runs for.
MaxTime == 16

\* How long asyncio.sleep may take beyond the time asked for, in ticks.
Oversleep == {0, 1}

\* `if current_time - self.last_request_time > cooldown_period: request_count = 0`
CountOnEntry(f) ==
    IF f.now - f.last_request_time > CooldownPeriod THEN 0 ELSE f.request_count

\* A variant of BurstWait that never waits.
BurstWait_Never(f) == 0

\* time_to_wait when the counter has reached burst_size and it is positive,
\* 0 when there is no such wait.
BurstWait(f) ==
    LET time_to_wait == CooldownPeriod - (f.now - f.last_request_time)
    IN  IF CountOnEntry(f) >= BurstSize /\ time_to_wait > 0 THEN time_to_wait ELSE 0

\* A variant of IntervalWait that never waits.
IntervalWait_Never(f) == 0

\* wait_time when time_since_last < min_interval, 0 otherwise; both are
\* computed from current_time, the time read on entry.
IntervalWait(f) ==
    LET time_since_last == f.now - f.last_request_time
    IN  IF time_since_last < MinInterval THEN MinInterval - time_since_last ELSE 0

\* The fetcher after one pass through _rate_limit in which the two sleeps
\* took over1 and over2 ticks more than asked for.
AfterRateLimit(f, over1, over2) ==
    LET burst_wait == BurstWait(f)
        slept1 == IF burst_wait > 0 THEN burst_wait + over1 ELSE 0
        count == IF burst_wait > 0 THEN 0 ELSE CountOnEntry(f)
        interval_wait == IntervalWait(f)
        slept2 == IF interval_wait > 0 THEN interval_wait + over2 ELSE 0
        done == f.now + slept1 + slept2
    IN  [f EXCEPT !.now = done,
                  !.request_count = count + 1,
                  !.last_request_time = done,
                  !.passes = f.passes + 1,
                  !.first_pass = IF f.passes = 0 THEN done ELSE f.first_pass]

\* time.time() is far beyond the initial last_request_time of 0.0.
InitRate ==
    /\ pc = "client"
    /\ current_mode = "tracks"
    /\ current_results = <<>>
    /\ current_artist_albums = <<>>
    /\ current_artist_info = None
    /\ search_history = <<>>
    /\ user_input = <<>>
    /\ selection_indices = None
    /\ confirm = None
    /\ batch = NoBatch
    /\ attempts = <<>>
    /\ search_call = None
    /\ profile_call = None
    /\ notice = "none"
    /\ intended = None
    /\ music_search = NoSearch
    /\ download_attempt = NoAttempt
    /\ download_call = NoCall
    /\ fetcher = [NoApi EXCEPT !.now = CooldownPeriod + 1]
    /\ formatted = NoFormat
    /\ error_handler = NoErrors

\* Time passes between two calls.
Tick ==
    /\ fetcher.now < CooldownPeriod + 1 + MaxTime
    /\ fetcher' = [fetcher EXCEPT !.now = @ + 1]
    /\ UNCHANGED <<session_vars, error_handler, music_search, download_attempt, download_call, formatted>>

\* await self._rate_limit()
_rate_limit ==
    /\ \E over1 \in Oversleep, over2 \in Oversleep :
           /\ fetcher' = AfterRateLimit(fetcher, over1, over2)
           /\ fetcher'.now <= CooldownPeriod + 1 + MaxTime
    /\ UNCHANGED <<session_vars, error_handler, music_search, download_attempt, download_call, formatted>>

NextRate ==
    \/ Tick
    \/ _rate_limit

SpecRate == InitRate /\ [][NextRate]_vars

\* --------------------------------------------------- the cache specification
\* APIClient.search_musicbrainz with its cache and _make_request, and
\* _read_cache / _write_cache called on their own, while time passes and cache
\* files get damaged on disk.

\* self.cache_ttl, in ticks.
CacheTtl == 2

\* The ticks the cache specification runs for.
MaxCacheTime == 3

\* The numbers of items a response may hold.
FoundCounts == {0, 1}

\* cache_key: one per endpoint and parameters (an MD5 digest of both).
_get_cache_key(entity, query) == <<entity, query>>

CacheKeys == {_get_cache_key("recording", <<"x">>), _get_cache_key("artist", <<"x">>)}

\* The results of a search of `entity` that found n items, as
\* _format_musicbrainz_results lists them.
Formatted(entity, n) == [i \in 1..n |-> [type |-> entity, id |-> i]]

\* A cache file that is not there.
NoFile == [kind |-> "absent", mtime |-> 0, data |-> <<>>]

\* What a cache file may hold: the JSON text json.dump wrote for `data`; text
\* that is not JSON (a truncated or empty file); bytes that are not UTF-8; or
\* it may be a file that open() refuses.
Damage == {"not_json", "not_utf8", "no_access"}

\* json.dump(data, f) at time `now`.
Written(data, now) == [kind |-> "json", mtime |-> now, data |-> data]

\* A variant of _is_cache_valid that trusts no file.
_is_cache_valid_Never(file, now) == FALSE

\* _is_cache_valid: the file exists and its age is below the TTL.
_is_cache_valid(file, now) == file.kind # "absent" /\ now - file.mtime < CacheTtl

\* _read_cache: None for a file that is not valid; json.load's value for one
\* that is; None when json.load raises JSONDecodeError or open raises OSError.
\* Bytes that are not UTF-8 make the read raise UnicodeDecodeError, a
\* ValueError that is neither of the two caught.
_read_cache(f, key) ==
    LET file == f.cache[key]
    IN  IF ~_is_cache_valid(file, f.now) THEN [data |-> None, raised |-> FALSE]
        ELSE IF file.kind = "json" THEN [data |-> Some(file.data), raised |-> FALSE]
        ELSE IF file.kind = "not_utf8" THEN [data |-> None, raised |-> TRUE]
        ELSE [data |-> None, raised |-> FALSE]

\* _write_cache: the file holds the data and is as old as the write, unless
\* open or the write raises OSError, which is logged and swallowed.
_write_cache(f, key, data, disk_ok) ==
    IF disk_ok THEN [f EXCEPT !.cache[key] = Written(data, f.now)] ELSE f

\* What the request of _make_request may meet: a 200 response with n items,
\* a 429, another status that raise_for_status refuses, a connection error
\* (aiohttp.ClientError), or the timeout of the session (TimeoutError).
Responses ==
    {[status |-> 200, n |-> n, failure |-> "none"] : n \in FoundCounts}
    \cup {[status |-> st, n |-> 0, failure |-> "none"] : st \in {429, 404}}
    \cup {[status |-> 0, n |-> 0, failure |-> fl] : fl \in {"connection", "timeout"}}

\* A variant of ErrorOf that knows one kind of error only.
ErrorOf_OneKind(resp) ==
    IF resp.failure = "timeout" THEN "TimeoutError"
    ELSE IF resp.failure = "connection" \/ resp.status # 200 THEN "APIError"
    ELSE "none"

\* The exception _make_request raises for a response, "none" when it returns
\* the JSON body.
ErrorOf(resp) ==
    IF resp.failure = "timeout" THEN "TimeoutError"
    ELSE IF resp.failure = "connection" THEN "APIError"
    ELSE IF resp.status = 429 THEN "RateLimitError"
    ELSE IF resp.status # 200 THEN "APIError"
    ELSE "none"

\* search_musicbrainz(query, entity): the fetcher after the call and the call
\* as its caller saw it, when the request (if one is made) meets `resp`, the
\* disk takes the write or not; the sleeps of the rate limiter take the time
\* asked for.
search_musicbrainz_result(f, entity, query, resp, disk_ok) ==
    LET key == _get_cache_key(entity, query)
        cached_result == _read_cache(f, key)
        seen == [op |-> "search", key |-> key, hit |-> FALSE, request |-> FALSE,
                 response |-> [status |-> 0, n |-> 0, failure |-> "none"],
                 error |-> "none", wrote |-> FALSE, returned |-> None, raised |-> FALSE]
    IN  IF cached_result.raised
        THEN [f EXCEPT !.call = [seen EXCEPT !.raised = TRUE]]
        ELSE IF cached_result.data # None /\ Get(cached_result.data) # <<>>
        THEN [f EXCEPT !.call = [seen EXCEPT !.hit = TRUE,
                                             !.returned = Some(Get(cached_result.data).results)]]
        ELSE LET limited == AfterRateLimit(f, 0, 0)
                 asked == [seen EXCEPT !.request = TRUE, !.response = resp,
                                       !.error = ErrorOf(resp)]
             IN  IF ErrorOf(resp) = "none"
                 THEN LET results == Formatted(entity, resp.n)
                      IN  [_write_cache(limited, key, [results |-> results], disk_ok)
                             EXCEPT !.call = [asked EXCEPT !.wrote = TRUE,
                                                           !.returned = Some(results)]]
                 ELSE [limited EXCEPT !.call = [asked EXCEPT !.returned = Some(<<>>)]]

InitCache ==
    /\ pc = "client"
    /\ current_mode = "tracks"
    /\ current_results = <<>>
    /\ current_artist_albums = <<>>
    /\ current_artist_info = None
    /\ search_history = <<>>
    /\ user_input = <<>>
    /\ selection_indices = None
    /\ confirm = None
    /\ batch = NoBatch
    /\ attempts = <<>>
    /\ search_call = None
    /\ profile_call = None
    /\ notice = "none"
    /\ intended = None
    /\ music_search = NoSearch
    /\ download_attempt = NoAttempt
    /\ download_call = NoCall
    /\ fetcher = [NoApi EXCEPT !.now = CooldownPeriod + 1,
                               !.cache = [key \in CacheKeys |-> NoFile]]
    /\ formatted = NoFormat
    /\ error_handler = NoErrors

\* Time passes between two calls.
CacheTick ==
    /\ fetcher.now < CooldownPeriod + 1 + MaxCacheTime
    /\ fetcher' = [fetcher EXCEPT !.now = @ + 1, !.call = [op |-> "none"]]
    /\ UNCHANGED <<session_vars, error_handler, music_search, download_attempt, download_call, formatted>>

\* A cache file is damaged on disk; its modification time stays.
DamageFile(key, damage) ==
    /\ fetcher.cache[key].kind = "json"
    /\ fetcher' = [fetcher EXCEPT !.cache[key].kind = damage, !.cache[key].data = <<>>,
                                  !.call = [op |-> "none"]]
    /\ UNCHANGED <<session_vars, error_handler, music_search, download_attempt, download_call, formatted>>

\* client._write_cache(key, data)
WriteCache(key, n) ==
    /\ \E disk_ok \in BOOLEAN :
           fetcher' = [_write_cache(fetcher, key, [results |-> Formatted(key[1], n)], disk_ok)
                          EXCEPT !.call = [op |-> "write", key |-> key, disk_ok |-> disk_ok]]
    /\ UNCHANGED <<session_vars, error_handler, music_search, download_attempt, download_call, formatted>>

\* client._read_cache(key)
ReadCache(key) ==
    /\ fetcher' = [fetcher EXCEPT !.call = [op |-> "read", key |-> key,
                                            data |-> _read_cache(fetcher, key).data,
                                            raised |-> _read_cache(fetcher, key).raised]]
    /\ UNCHANGED <<session_vars, error_handler, music_search, download_attempt, download_call, formatted>>

\* await client.search_musicbrainz(query, entity)
search_musicbrainz(key) ==
    /\ \E resp \in Responses, disk_ok \in BOOLEAN :
           fetcher' = search_musicbrainz_result(fetcher, key[1], key[2], resp, disk_ok)
    /\ fetcher'.now <= CooldownPeriod + 1 + MaxCacheTime
    /\ UNCHANGED <<session_vars, error_handler, music_search, download_attempt, download_call, formatted>>

NextCache ==
    \/ CacheTick
    \/ \E key \in CacheKeys, damage \in Damage : DamageFile(key, damage)
    \/ \E key \in CacheKeys, n \in FoundCounts : WriteCache(key, n)
    \/ \E key \in CacheKeys : ReadCache(key)
    \/ \E key \in CacheKeys : search_musicbrainz(key)

SpecCache == InitCache /\ [][NextCache]_vars

\* ------------------------------------------------- the cleanup specification
\* APIClient.cleanup_cache on a cache directory of files of any age.

\* self.max_cache_size
MaxCacheSize == 2

\* The most files the cache directory holds before the cleanup.
MaxFiles == 4

CacheFiles == 1..MaxFiles

\* When the cleanup runs: late enough for files to be older than the TTL.
CleanupTime == CacheTtl + 2

\* self.cache_dir.glob("*.json")
Globbed(dir) == {file \in DOMAIN dir : dir[file].kind # "absent"}

\* The files of the first loop's `cache_age > self.cache_ttl`.
Expired(dir, now) == {file \in Globbed(dir) : now - dir[file].mtime > CacheTtl}

\* A variant of files_to_remove that slices the list as globbed, unsorted.
files_to_remove_Unsorted(dir, remaining_files) ==
    IF Cardinality(remaining_files) > MaxCacheSize
    THEN {removed \in SUBSET remaining_files :
             Cardinality(removed) = Cardinality(remaining_files) - MaxCacheSize}
    ELSE {{}}

\* files_to_remove: remaining_files sorted by modification time, oldest
\* first, without its last max_cache_size files, when there are more than
\* max_cache_size of them. Files of equal age stay in the order the directory
\* listed them, which is any order, so the slice is one of several sets.
files_to_remove(dir, remaining_files) ==
    IF Cardinality(remaining_files) > MaxCacheSize
    THEN {removed \in SUBSET remaining_files :
             /\ Cardinality(removed) = Cardinality(remaining_files) - MaxCacheSize
             /\ \A old \in removed, kept \in remaining_files \ removed :
                    dir[old].mtime <= dir[kept].mtime}
    ELSE {{}}

\* cache_file.unlink() for each of `files`
Unlinked(dir, files) == [file \in DOMAIN dir |-> IF file \in files THEN NoFile ELSE dir[file]]

InitCleanup ==
    /\ pc = "client"
    /\ current_mode = "tracks"
    /\ current_results = <<>>
    /\ current_artist_albums = <<>>
    /\ current_artist_info = None
    /\ search_history = <<>>
    /\ user_input = <<>>
    /\ selection_indices = None
    /\ confirm = None
    /\ batch = NoBatch
    /\ attempts = <<>>
    /\ search_call = None
    /\ profile_call = None
    /\ notice = "none"
    /\ intended = None
    /\ music_search = NoSearch
    /\ download_attempt = NoAttempt
    /\ download_call = NoCall
    /\ \E dir \in [CacheFiles -> {NoFile} \cup {Written(<<>>, at) : at \in 0..CleanupTime}] :
           fetcher = [NoApi EXCEPT !.now = CleanupTime, !.cache = dir]
    /\ formatted = NoFormat
    /\ error_handler = NoErrors

\* client.cleanup_cache()
cleanup_cache ==
    /\ fetcher.call.op = "none"
    /\ LET remaining_files == Globbed(fetcher.cache) \ Expired(fetcher.cache, fetcher.now)
       IN  \E removed \in files_to_remove(fetcher.cache, remaining_files) :
              fetcher' = [fetcher EXCEPT
                             !.cache = Unlinked(fetcher.cache,
                                                Expired(fetcher.cache, fetcher.now) \cup removed),
                             !.call = [op |-> "cleanup", cache_files |-> fetcher.cache]]
    /\ UNCHANGED <<session_vars, error_handler, music_search, download_attempt, download_call, formatted>>

NextCleanup == cleanup_cache

SpecCleanup == InitCleanup /\ [][NextCleanup]_vars

\* ---------------------------------------------- the formatting specification
\* The two _format_duration methods and the normalization of raw search
\* results, applied to inputs drawn from bounded sets.

\* A variant of TwoDigits that does not pad.
TwoDigits_Unpadded(n) == Numeral(n)

\* f"{n:02d}": the decimal digits, zero-padded to two.
TwoDigits(n) == IF n < 10 THEN <<"0">> \o Numeral(n) ELSE Numeral(n)

\* APIClient._format_duration(length_ms); None is Python's None.
APIClient_format_duration(length_ms) ==
    IF length_ms = None \/ Get(length_ms) = 0 THEN <<"0", ":", "0", "0">>
    ELSE LET seconds == Get(length_ms) \div 1000
             minutes == seconds \div 60
         IN  Numeral(minutes) \o <<":">> \o TwoDigits(seconds % 60)

\* DeemixClient._format_duration(seconds); None is Python's None.
DeemixClient_format_duration(seconds) ==
    IF seconds = None \/ Get(seconds) = 0 THEN <<"0", ":", "0", "0">>
    ELSE LET minutes == Get(seconds) \div 60
         IN  Numeral(minutes) \o <<":">> \o TwoDigits(Get(seconds) % 60)

\* The lengths MusicBrainz may report, in milliseconds, None when it reports
\* null.
LengthsMs ==
    {None} \cup {Some(ms) : ms \in {0, 1, 999, 1000, 9999, 59999, 60000, 90000, 210000,
                                    599999, 600000, 3599000, 3600000, 36000000}}

\* The durations Deezer may report, in seconds.
DurationsSeconds ==
    {None} \cup {Some(sec) : sec \in {0, 1, 9, 10, 59, 60, 61, 90, 210, 599, 600, 3599,
                                      3600, 36000}}

\* Raw items are records of optional fields: None is a key the item does not
\* have, Some(v) a key with value v. In a result every field is Some(v), or
\* None for Python's None.

\* dict.get(key, default) on an optional field.
GetOr(field, default) == IF field = None THEN default ELSE Get(field)

\* `if item.get(key):` for a key that holds a list.
Truthy(list) == list # None /\ Get(list) # <<>>

\* `if album_id` for an id, which is never 0 or empty when present.
TruthyId(id) == id # None

\* f"{base}{id}": str(None) is "None".
UrlOf(base, id) == <<base, IF id = None THEN "None" ELSE Get(id)>>

\* The name (or title) of the first entry of an artist-credit (or releases)
\* list, 'Unknown' when the list is missing or empty or the entry has none.
FirstNamed(list) ==
    IF Truthy(list) THEN Some(GetOr(Get(list)[1].name, "Unknown")) ELSE Some("Unknown")

\* _format_musicbrainz_results, entity 'recording': one item.
FormatRecording(item) ==
    [id |-> item.id,
     title |-> Some(GetOr(item.title, "Unknown")),
     artist |-> FirstNamed(item.artist_credit),
     album |-> FirstNamed(item.releases),
     duration |-> Some(APIClient_format_duration(GetOr(item.length, Some(0)))),
     type |-> Some("track"),
     url |-> Some(UrlOf("https://musicbrainz.org/recording/", item.id)),
     score |-> Some(GetOr(item.score, 0))]

\* _format_musicbrainz_results, entity 'release': one item.
FormatRelease(item) ==
    [id |-> item.id,
     title |-> Some(GetOr(item.title, "Unknown")),
     artist |-> FirstNamed(item.artist_credit),
     tracks |-> Some(GetOr(item.track_count, 0)),
     type |-> Some("album"),
     url |-> Some(UrlOf("https://musicbrainz.org/release/", item.id)),
     score |-> Some(GetOr(item.score, 0))]

\* _format_musicbrainz_results, entity 'artist': one item.
FormatArtist(item) ==
    [id |-> item.id,
     name |-> Some(GetOr(item.name, "Unknown")),
     albums |-> Some(0),
     fans |-> Some(0),
     type |-> Some("artist"),
     url |-> Some(UrlOf("https://musicbrainz.org/artist/", item.id)),
     score |-> Some(GetOr(item.score, 0))]

\* results.sort(key=score, reverse=True): by descending score, results of
\* equal score in their first order.
RECURSIVE SortedByScore(_)
SortedByScore(results) ==
    IF results = <<>> THEN <<>>
    ELSE LET last == results[Len(results)]
             sorted == SortedByScore(SubSeq(results, 1, Len(results) - 1))
             ahead == SelectSeq(sorted, LAMBDA r : Get(r.score) >= Get(last.score))
             behind == SelectSeq(sorted, LAMBDA r : Get(r.score) < Get(last.score))
         IN  ahead \o <<last>> \o behind

\* A variant of _format_musicbrainz_results without the final sort.
_format_musicbrainz_results_Unsorted(items, entity) ==
    [i \in 1..Len(items) |->
        IF entity = "recording" THEN FormatRecording(items[i])
        ELSE IF entity = "release" THEN FormatRelease(items[i])
        ELSE FormatArtist(items[i])]

\* _format_musicbrainz_results(data, entity), for data's list of items.
_format_musicbrainz_results(items, entity) ==
    SortedByScore([i \in 1..Len(items) |->
        IF entity = "recording" THEN FormatRecording(items[i])
        ELSE IF entity = "release" THEN FormatRelease(items[i])
        ELSE FormatArtist(items[i])])

\* track.get('artist', {}) and track.get('album', {}): the empty dict for a
\* missing key.
NoDict == [id |-> None, name |-> None, title |-> None]

\* DeemixClient._format_tracks(tracks)
_format_tracks(tracks) ==
    [i \in 1..Len(tracks) |->
        [id |-> tracks[i].id,
         title |-> Some(GetOr(tracks[i].title, "Unknown")),
         artist |-> Some(GetOr(GetOr(tracks[i].artist, NoDict).name, "Unknown")),
         album |-> Some(GetOr(GetOr(tracks[i].album, NoDict).title, "Unknown")),
         duration |-> Some(DeemixClient_format_duration(GetOr(tracks[i].duration, Some(0)))),
         type |-> Some("track"),
         url |-> Some(UrlOf("https://www.deezer.com/track/", tracks[i].id))]]

\* DeemixClient._extract_albums_from_tracks(tracks): one album for each album
\* id first seen; nb_tracks is what get_album reports for it, None when the
\* call raises or the details have no count.
RECURSIVE _extract_albums_from_tracks(_, _)
_extract_albums_from_tracks(tracks, nb_tracks) ==
    IF tracks = <<>> THEN <<>>
    ELSE LET before == _extract_albums_from_tracks(SubSeq(tracks, 1, Len(tracks) - 1), nb_tracks)
             track == tracks[Len(tracks)]
             album_info == GetOr(track.album, NoDict)
             album_id == album_info.id
         IN  IF TruthyId(album_id) /\ \A i \in 1..Len(before) : before[i].id # album_id
             THEN before \o <<[id |-> album_id,
                                title |-> Some(GetOr(album_info.title, "Unknown")),
                                artist |-> Some(GetOr(GetOr(track.artist, NoDict).name, "Unknown")),
                                tracks |-> Some(GetOr(nb_tracks, 0)),
                                type |-> Some("album"),
                                url |-> Some(UrlOf("https://www.deezer.com/album/", album_id))]>>
             ELSE before

\* DeemixClient._format_artists(artists)
_format_artists(artists) ==
    [i \in 1..Len(artists) |->
        [id |-> artists[i].id,
         name |-> Some(GetOr(artists[i].name, "Unknown")),
         albums |-> Some(GetOr(artists[i].nb_album, 0)),
         fans |-> Some(GetOr(artists[i].nb_fan, 0)),
         type |-> Some("artist"),
         url |-> Some(UrlOf("https://www.deezer.com/artist/", artists[i].id))]]

\* formatted_artists.sort(key=fans, reverse=True) of search_artists: by
\* descending fan count, artists of equal count in their first order.
RECURSIVE SortedByFans(_)
SortedByFans(results) ==
    IF results = <<>> THEN <<>>
    ELSE LET last == results[Len(results)]
             sorted == SortedByFans(SubSeq(results, 1, Len(results) - 1))
             ahead == SelectSeq(sorted, LAMBDA r : Get(r.fans) >= Get(last.fans))
             behind == SelectSeq(sorted, LAMBDA r : Get(r.fans) < Get(last.fans))
         IN  ahead \o <<last>> \o behind

\* DeemixClient.search_artists, from artists_data on: the artists formatted
\* and sorted by fan count.
search_artists_ranked(artists_data) == SortedByFans(_format_artists(artists_data))

\* An optional field: missing, or present with one of `values`.
Optional(values) == {None} \cup {Some(v) : v \in values}

\* The lists an artist-credit or releases key may hold.
CreditLists(names) == {<<>>} \cup {<<[name |-> name]>> : name \in Optional(names)}

\* Raw MusicBrainz items with any subset of their keys missing.
RawRecordings ==
    [id : Optional({"mbid-1"}), title : Optional({"Title"}),
     artist_credit : Optional(CreditLists({"Artist"})),
     releases : Optional(CreditLists({"Album"})),
     length : Optional({None, Some(90000)}), score : Optional({50, 100})]

RawReleases ==
    [id : Optional({"mbid-1"}), title : Optional({"Title"}),
     artist_credit : Optional(CreditLists({"Artist"})),
     track_count : Optional({12}), score : Optional({50, 100})]

RawArtists == [id : Optional({"mbid-1"}), name : Optional({"Artist"}), score : Optional({50, 100})]

\* Raw Deezer tracks with any subset of their keys missing.
RawDicts == {[id |-> id, name |-> name, title |-> name] : id \in Optional({3}), name \in Optional({"Name"})}

RawTracks ==
    [id : Optional({7}), title : Optional({"Title"}), artist : Optional(RawDicts),
     album : Optional(RawDicts), duration : Optional({None, Some(90)})]

RawDeezerArtists ==
    [id : Optional({3}), name : Optional({"Artist"}), nb_album : Optional({4}),
     nb_fan : Optional({1000})]

\* Items with every key, listed before or after the item under test.
FullItem(op) ==
    IF op = "recording"
    THEN [id |-> Some("mbid-2"), title |-> Some("Other"),
          artist_credit |-> Some(<<[name |-> Some("Artist")]>>),
          releases |-> Some(<<[name |-> Some("Album")]>>),
          length |-> Some(Some(210000)), score |-> Some(70)]
    ELSE IF op = "release"
    THEN [id |-> Some("mbid-2"), title |-> Some("Other"),
          artist_credit |-> Some(<<[name |-> Some("Artist")]>>),
          track_count |-> Some(9), score |-> Some(70)]
    ELSE IF op = "artist"
    THEN [id |-> Some("mbid-2"), name |-> Some("Other"), score |-> Some(70)]
    ELSE IF op = "deemix_artists"
    THEN [id |-> Some(8), name |-> Some("Other"), nb_album |-> Some(2), nb_fan |-> Some(10)]
    ELSE [id |-> Some(9), title |-> Some("Other"),
          artist |-> Some([id |-> Some(3), name |-> Some("Name"), title |-> Some("Name")]),
          album |-> Some([id |-> Some(3), name |-> Some("Name"), title |-> Some("Name")]),
          duration |-> Some(Some(210))]

\* The lists a formatter is given: the item alone, or with a full item
\* before or after it.
ListsOf(op, item) == {<<item>>, <<item, FullItem(op)>>, <<FullItem(op), item>>}

\* Three MusicBrainz artists in the order the backend supplied them, with any
\* scores, equal ones included.
ScoredArtists ==
    {<<[id |-> Some("mbid-1"), name |-> Some("Artist"), score |-> s1],
       [id |-> Some("mbid-2"), name |-> Some("Artist"), score |-> s2],
       [id |-> Some("mbid-3"), name |-> Some("Artist"), score |-> s3]>> :
        s1 \in Optional({50, 100}), s2 \in Optional({50, 100}), s3 \in Optional({50, 100})}

\* Three Deezer artists in the order the backend supplied them, with any fan
\* counts, equal ones included.
FannedArtists ==
    {<<[id |-> Some(1), name |-> Some("Artist"), nb_album |-> Some(4), nb_fan |-> f1],
       [id |-> Some(2), name |-> Some("Artist"), nb_album |-> Some(4), nb_fan |-> f2],
       [id |-> Some(3), name |-> Some("Artist"), nb_album |-> Some(4), nb_fan |-> f3]>> :
        f1 \in Optional({10, 1000}), f2 \in Optional({10, 1000}), f3 \in Optional({10, 1000})}

\* The calls of the formatting specification.
FormatCalls ==
    {[at |-> "raw", op |-> "api_duration", input |-> ms] : ms \in LengthsMs}
    \cup {[at |-> "raw", op |-> "deemix_duration", input |-> sec] : sec \in DurationsSeconds}
    \cup UNION {{[at |-> "raw", op |-> "recording", input |-> items] :
                    items \in ListsOf("recording", item)} : item \in RawRecordings}
    \cup UNION {{[at |-> "raw", op |-> "release", input |-> items] :
                    items \in ListsOf("release", item)} : item \in RawReleases}
    \cup UNION {{[at |-> "raw", op |-> "artist", input |-> items] :
                    items \in ListsOf("artist", item)} : item \in RawArtists}
    \cup UNION {{[at |-> "raw", op |-> "deemix_tracks", input |-> items] :
                    items \in ListsOf("deemix_tracks", item)} : item \in RawTracks}
    \cup UNION {{[at |-> "raw", op |-> "deemix_albums", input |-> items] :
                    items \in ListsOf("deemix_albums", item)} : item \in RawTracks}
    \cup UNION {{[at |-> "raw", op |-> "deemix_artists", input |-> items] :
                    items \in ListsOf("deemix_artists", item)} : item \in RawDeezerArtists}
    \cup {[at |-> "raw", op |-> "artist", input |-> items] : items \in ScoredArtists}
    \cup {[at |-> "raw", op |-> "deemix_search_artists", input |-> items] :
             items \in FannedArtists}

InitFormat ==
    /\ pc = "client"
    /\ current_mode = "tracks"
    /\ current_results = <<>>
    /\ current_artist_albums = <<>>
    /\ current_artist_info = None
    /\ search_history = <<>>
    /\ user_input = <<>>
    /\ selection_indices = None
    /\ confirm = None
    /\ batch = NoBatch
    /\ attempts = <<>>
    /\ search_call = None
    /\ profile_call = None
    /\ notice = "none"
    /\ intended = None
    /\ music_search = NoSearch
    /\ download_attempt = NoAttempt
    /\ download_call = NoCall
    /\ fetcher = NoApi
    /\ formatted \in FormatCalls
    /\ error_handler = NoErrors

\* APIClient._format_duration(length_ms)
FormatLength ==
    /\ formatted.at = "raw"
    /\ formatted.op = "api_duration"
    /\ formatted' = [at |-> "done", op |-> formatted.op, input |-> formatted.input,
                     output |-> APIClient_format_duration(formatted.input)]
    /\ UNCHANGED <<session_vars, error_handler, music_search, download_attempt, download_call, fetcher>>

\* DeemixClient._format_duration(seconds)
FormatSeconds ==
    /\ formatted.at = "raw"
    /\ formatted.op = "deemix_duration"
    /\ formatted' = [at |-> "done", op |-> formatted.op, input |-> formatted.input,
                     output |-> DeemixClient_format_duration(formatted.input)]
    /\ UNCHANGED <<session_vars, error_handler, music_search, download_attempt, download_call, fetcher>>

\* self._format_musicbrainz_results(data, entity)
FormatMusicbrainz ==
    /\ formatted.at = "raw"
    /\ formatted.op \in {"recording", "release", "artist"}
    /\ formatted' = [at |-> "done", op |-> formatted.op, input |-> formatted.input,
                     output |-> _format_musicbrainz_results(formatted.input, formatted.op)]
    /\ UNCHANGED <<session_vars, error_handler, music_search, download_attempt, download_call, fetcher>>

\* self._format_tracks(results.get('data', []))
FormatTracks ==
    /\ formatted.at = "raw"
    /\ formatted.op = "deemix_tracks"
    /\ formatted' = [at |-> "done", op |-> formatted.op, input |-> formatted.input,
                     output |-> _format_tracks(formatted.input)]
    /\ UNCHANGED <<session_vars, error_handler, music_search, download_attempt, download_call, fetcher>>

\* self._extract_albums_from_tracks(tracks)
ExtractAlbums ==
    /\ formatted.at = "raw"
    /\ formatted.op = "deemix_albums"
    /\ \E nb_tracks \in Optional({12}) :
           formatted' = [at |-> "done", op |-> formatted.op, input |-> formatted.input,
                         output |-> _extract_albums_from_tracks(formatted.input, nb_tracks)]
    /\ UNCHANGED <<session_vars, error_handler, music_search, download_attempt, download_call, fetcher>>

\* self._format_artists(artists_data)
FormatArtists ==
    /\ formatted.at = "raw"
    /\ formatted.op = "deemix_artists"
    /\ formatted' = [at |-> "done", op |-> formatted.op, input |-> formatted.input,
                     output |-> _format_artists(formatted.input)]
    /\ UNCHANGED <<session_vars, error_handler, music_search, download_attempt, download_call, fetcher>>

\* DeemixClient.search_artists(query), once artists_data is collected
SearchArtistsRanked ==
    /\ formatted.at = "raw"
    /\ formatted.op = "deemix_search_artists"
    /\ formatted' = [at |-> "done", op |-> formatted.op, input |-> formatted.input,
                     output |-> search_artists_ranked(formatted.input)]
    /\ UNCHANGED <<session_vars, error_handler, music_search, download_attempt, download_call, fetcher>>

NextFormat ==
    \/ SearchArtistsRanked
    \/ FormatLength
    \/ FormatSeconds
    \/ FormatMusicbrainz
    \/ FormatTracks
    \/ ExtractAlbums
    \/ FormatArtists

SpecFormat == InitFormat /\ [][NextFormat]_vars

\* --------------------------------------------------- the error specification
\* ErrorHandler.handle_error and get_error_stats, and functions wrapped by the
\* handle_errors decorator.

\* The most errors handed to the handler in one run.
MaxErrors == 3

Severities == {"low", "medium", "high", "critical"}

\* A variant of Counted that records that the type occurred.
Counted_Once(error_counts, error_type) == [error_counts EXCEPT ![error_type] = 1]

\* self.error_counts[error_type] = self.error_counts.get(error_type, 0) + 1
Counted(error_counts, error_type) == [error_counts EXCEPT ![error_type] = @ + 1]

\* What handle_error returns: isinstance(error, (ValidationError,
\* NetworkError)) and severity != CRITICAL.
Recoverable(error_type, severity) ==
    error_type \in {"ValidationError", "NetworkError"} /\ severity # "critical"

\* The handler after handle_error(error, context, severity).
Handled(eh, error_type, severity) ==
    [eh EXCEPT !.error_counts = Counted(eh.error_counts, error_type),
               !.handled = Append(eh.handled, error_type)]

InitErrors ==
    /\ pc = "client"
    /\ current_mode = "tracks"
    /\ current_results = <<>>
    /\ current_artist_albums = <<>>
    /\ current_artist_info = None
    /\ search_history = <<>>
    /\ user_input = <<>>
    /\ selection_indices = None
    /\ confirm = None
    /\ batch = NoBatch
    /\ attempts = <<>>
    /\ search_call = None
    /\ profile_call = None
    /\ notice = "none"
    /\ intended = None
    /\ music_search = NoSearch
    /\ download_attempt = NoAttempt
    /\ download_call = NoCall
    /\ fetcher = NoApi
    /\ formatted = NoFormat
    /\ error_handler = NoErrors

\* self.error_handler.handle_error(e, context, severity)
handle_error(error_type, severity) ==
    /\ Len(error_handler.handled) < MaxErrors
    /\ error_handler' =
           [Handled(error_handler, error_type, severity) EXCEPT
               !.call = [op |-> "handle_error", error |-> error_type,
                         severity |-> severity,
                         recoverable |-> Recoverable(error_type, severity)]]
    /\ UNCHANGED <<session_vars, music_search, download_attempt, download_call, fetcher,
                   formatted>>

\* self.error_handler.get_error_stats(), as _show_status reads it
get_error_stats ==
    /\ error_handler' = [error_handler EXCEPT
                            !.call = [op |-> "get_error_stats",
                                      stats |-> error_handler.error_counts]]
    /\ UNCHANGED <<session_vars, music_search, download_attempt, download_call, fetcher,
                   formatted>>

\* A call of a function wrapped by handle_errors(operation, severity,
\* reraise=reraise) that returns a value.
WrappedReturns(severity, reraise) ==
    /\ error_handler' = [error_handler EXCEPT
                            !.call = [op |-> "wrapper", error |-> None,
                                      severity |-> severity, reraise |-> reraise,
                                      own_handler |-> FALSE, outcome |-> "returned_value"]]
    /\ UNCHANGED <<session_vars, music_search, download_attempt, download_call, fetcher,
                   formatted>>

\* A call of a function wrapped by handle_errors that raises an error: the
\* wrapper hands it to the error_handler of the function's first argument, or
\* to a new ErrorHandler when there is none, and then raises it again or
\* returns None.
WrappedRaises(error_type, severity, reraise, own_handler) ==
    /\ own_handler => Len(error_handler.handled) < MaxErrors
    /\ LET recoverable == Recoverable(error_type, severity)
           eh == IF own_handler THEN Handled(error_handler, error_type, severity)
                 ELSE error_handler
       IN  error_handler' =
               [eh EXCEPT !.call = [op |-> "wrapper", error |-> Some(error_type),
                                    severity |-> severity, reraise |-> reraise,
                                    own_handler |-> own_handler,
                                    outcome |-> IF reraise \/ ~recoverable THEN "raised"
                                                ELSE "returned_none"]]
    /\ UNCHANGED <<session_vars, music_search, download_attempt, download_call, fetcher,
                   formatted>>

NextErrors ==
    \/ \E error_type \in ErrorTypes, severity \in Severities : handle_error(error_type, severity)
    \/ get_error_stats
    \/ \E severity \in Severities, reraise \in BOOLEAN : WrappedReturns(severity, reraise)
    \/ \E error_type \in ErrorTypes, severity \in Severities, reraise \in BOOLEAN,
          own_handler \in BOOLEAN : WrappedRaises(error_type, severity, reraise, own_handler)

SpecErrors == InitErrors /\ [][NextErrors]_vars

\* ----------------------------------------------- the download specification
\* DeemixClient._attempt_download on a client configured with one of the three
\* quality settings: the list of quality codes it builds and its loop over
\* them, one _try_quality call per pass.

\* The quality settings a client is configured with.
QualitySettings == {"128", "320", "FLAC"}

\* quality_map.get(quality, 3)
_quality_to_code(quality) ==
    IF quality = "128" THEN 1
    ELSE IF quality = "FLAC" THEN 9
    ELSE 3

\* qualities = [3, 1]; if maxBitrate not in qualities: qualities.insert(0, maxBitrate)
QualityList(maxBitrate) ==
    IF maxBitrate \in {3, 1} THEN <<3, 1>> ELSE <<maxBitrate, 3, 1>>

\* What one _try_quality call may meet: generateDownloadObject returns nothing;
\* an exception whose message names bitrate, stream, quality or desired; any
\* other exception; the download ran and _verify_download_success found no
\* new audio file with content; it found one.
TierOutcomes == {"no_object", "quality_error", "other_error", "not_verified", "verified"}

\* A variant of _try_quality that reports success whenever the downloader ran.
_try_quality_WhenStarted(out) == out \in {"not_verified", "verified"}

\* The value _try_quality returns: True after a successful verification, False
\* on every other path, both branches of its except clause included.
_try_quality(out) == out = "verified"

\* The attempt after _try_quality met `out` at the current position of the loop.
AfterTier(da, out) ==
    LET tried == [da EXCEPT !.tried = Append(@, [quality_code |-> da.qualities[da.k],
                                                 outcome |-> out])]
    IN  IF _try_quality(out) THEN [tried EXCEPT !.at = "returned", !.result = Some(TRUE)]
        ELSE IF da.k >= Len(da.qualities)
        THEN [tried EXCEPT !.at = "returned", !.result = Some(FALSE)]
        ELSE [tried EXCEPT !.k = da.k + 1]

\* The most tracks an album has and the most audio files its folder holds.
MaxTracks == 10

\* A variant of _check_existing_album that wants more than 80%.
_check_existing_album_MoreThan(dc) ==
    dc.info /\ dc.folder /\ 10 * dc.audio_files > 8 * dc.expected_tracks

\* _check_existing_album: the album's info was obtained, its folder exists and
\* len(audio_files) >= expected_tracks * 0.8, audio_files being the files of
\* the folder with an audio suffix and a size above zero. An exception (no
\* info) is swallowed and answers False.
_check_existing_album(dc) ==
    dc.info /\ dc.folder /\ 10 * dc.audio_files >= 8 * dc.expected_tracks

\* _check_existing_content: by the kind of URL; found tells whether
\* _check_existing_track comes upon a file naming the track and its artist.
_check_existing_content(dc) ==
    IF dc.url = "album" THEN _check_existing_album(dc)
    ELSE IF dc.url = "track" THEN dc.found
    ELSE FALSE

\* A variant of Refused that looks at the backend only.
Refused_BackendOnly(dc) == ~dc.available

\* MusicClient.download and DeemixClient.download refuse before anything else:
\* the deemix client is not available, or no ARL is configured.
Refused(dc) == ~dc.available \/ ~dc.arl

\* The calls the download specification starts from: a client available or
\* not, with or without an ARL, and a URL of an album (with what
\* _check_existing_album would see), of a track, or of neither.
DownloadCalls ==
    {[NoCall EXCEPT !.available = av, !.arl = arl, !.url = "album", !.info = info,
                    !.folder = folder, !.expected_tracks = n, !.audio_files = k,
                    !.at = "called"] :
        av \in BOOLEAN, arl \in BOOLEAN, info \in BOOLEAN, folder \in BOOLEAN,
        n \in 0..MaxTracks, k \in 0..MaxTracks}
    \cup {[NoCall EXCEPT !.available = av, !.arl = arl, !.url = "track", !.found = found,
                         !.at = "called"] :
              av \in BOOLEAN, arl \in BOOLEAN, found \in BOOLEAN}
    \cup {[NoCall EXCEPT !.available = av, !.arl = arl, !.at = "called"] :
              av \in BOOLEAN, arl \in BOOLEAN}

\* The call once the existing-content check has answered False and its locals
\* are gone.
Checked(dc) ==
    [dc EXCEPT !.checked = TRUE, !.info = FALSE, !.folder = FALSE,
               !.expected_tracks = 0, !.audio_files = 0, !.found = FALSE]

InitDownload ==
    /\ pc = "client"
    /\ current_mode = "tracks"
    /\ current_results = <<>>
    /\ current_artist_albums = <<>>
    /\ current_artist_info = None
    /\ search_history = <<>>
    /\ user_input = <<>>
    /\ selection_indices = None
    /\ confirm = None
    /\ batch = NoBatch
    /\ attempts = <<>>
    /\ search_call = None
    /\ profile_call = None
    /\ notice = "none"
    /\ intended = None
    /\ music_search = NoSearch
    /\ \E quality \in QualitySettings :
           download_attempt = [NoAttempt EXCEPT !.quality = quality,
                                                !.maxBitrate = _quality_to_code(quality)]
    /\ download_call \in DownloadCalls
    /\ fetcher = NoApi
    /\ formatted = NoFormat
    /\ error_handler = NoErrors

\* _attempt_download builds the list and enters the loop.
_attempt_download ==
    /\ download_call.at = "attempting"
    /\ download_attempt.at = "idle"
    /\ download_attempt' = [download_attempt EXCEPT
                                !.at = "loop",
                                !.qualities = QualityList(download_attempt.maxBitrate),
                                !.k = 1]
    /\ UNCHANGED <<session_vars, error_handler, music_search, download_call, fetcher, formatted>>

\* One pass of the loop: if self._try_quality(...): return True
TryQuality(out) ==
    /\ download_attempt.at = "loop"
    /\ download_attempt' = AfterTier(download_attempt, out)
    /\ UNCHANGED <<session_vars, error_handler, music_search, download_call, fetcher, formatted>>

\* download(url) up to its first return or to the call of _attempt_download.
download ==
    /\ download_call.at = "called"
    /\ download_call' =
           IF Refused(download_call)
           THEN [download_call EXCEPT !.at = "returned", !.result = Some(FALSE)]
           ELSE IF _check_existing_content(download_call)
           THEN [download_call EXCEPT !.checked = TRUE, !.at = "returned",
                                      !.result = Some(TRUE)]
           ELSE [Checked(download_call) EXCEPT !.at = "attempting"]
    /\ UNCHANGED <<session_vars, error_handler, music_search, download_attempt, fetcher, formatted>>

\* return self._attempt_download(url)
download_returns ==
    /\ download_call.at = "attempting"
    /\ download_attempt.at = "returned"
    /\ download_call' = [download_call EXCEPT !.at = "returned",
                                              !.result = download_attempt.result]
    /\ UNCHANGED <<session_vars, error_handler, music_search, download_attempt, fetcher, formatted>>

NextDownload ==
    \/ download
    \/ download_returns
    \/ _attempt_download
    \/ \E out \in TierOutcomes : TryQuality(out)

SpecDownload == InitDownload /\ [][NextDownload]_vars

\* -------------------------------------------------------------- properties

\* The list the handler resolves a selection against in the current state:
\* the album list while a profile view is active, the result list otherwise.
CurrentScope ==
    IF current_artist_albums # <<>> THEN current_artist_albums ELSE current_results

\* The indices of the selection being handled.
Selected == Get(selection_indices)

\* Whether a command that left the session's lists alone is handling a
\* selection (the command that enters a profile view changes the album list).
HandlingSelection ==
    selection_indices # None /\ profile_call = None /\ pc \in {"handled", "confirm", "batch"}

OutOfRange(n, items) == n < 1 \/ n > Len(items)

\* How many times x occurs in seq.
Occurrences(seq, x) == Cardinality({k \in DOMAIN seq : seq[k] = x})

\* C1: when some index of a selection is below 1 or above the size of the
\* current scope, no download is attempted for any index of the selection
\* and no batch is started.
C1_AllOrNothing ==
    (HandlingSelection /\ \E k \in DOMAIN Selected : OutOfRange(Selected[k], CurrentScope))
        => (attempts = <<>> /\ batch = NoBatch /\ pc = "handled")

\* A selection with one index in range and one out of range on a full result
\* list was handled and nothing was downloaded.
C1_Witness ==
    /\ pc = "handled"
    /\ user_input = <<"1", ",", "9">>
    /\ selection_indices = Some(<<1, 9>>)
    /\ current_mode = "tracks"
    /\ Len(current_results) = MaxResults
    /\ attempts = <<>>
    /\ notice = "invalid_numbers"

\* C2: the downloads of a command are of selected indices, in strictly
\* ascending order (so none twice); a download is started only after the
\* outcome of the previous one is recorded; a finished batch has downloaded
\* every selected index.
C2_AscendingOnce ==
    /\ \A k \in DOMAIN attempts :
           /\ selection_indices # None
           /\ attempts[k].number \in {Selected[j] : j \in DOMAIN Selected}
           /\ k > 1 => attempts[k - 1].number < attempts[k].number
    /\ pc = "batch" =>
           /\ batch.i = Len(attempts) + 1
           /\ Len(attempts) = Len(batch.successful_downloads) + Len(batch.failed_downloads)
    /\ batch.state = "finished" =>
           {attempts[k].number : k \in DOMAIN attempts} = {Selected[j] : j \in DOMAIN Selected}

\* The batch typed as 2,4,2 has finished with item 2 then item 4 downloaded,
\* each once.
C2_Witness ==
    /\ batch.state = "finished"
    /\ user_input = <<"2", ",", "4", ",", "2">>
    /\ Len(attempts) = 2
    /\ attempts[1].number = 2
    /\ attempts[2].number = 4

\* C3: when a batch finishes, every selected index was attempted, whatever the
\* outcomes of the others, and appears exactly once in exactly one of the two
\* summary lists: in the successful list when its own download returned true,
\* in the failed list when it returned false or raised.
C3_FailureIsolated ==
    batch.state = "finished" =>
        /\ Len(attempts) = Len(Selected)
        /\ \A j \in DOMAIN Selected :
               \E k \in DOMAIN attempts :
                   /\ attempts[k].number = Selected[j]
                   /\ Occurrences(batch.successful_downloads, Selected[j])
                          = (IF attempts[k].ok THEN 1 ELSE 0)
                   /\ Occurrences(batch.failed_downloads, Selected[j])
                          = (IF attempts[k].ok THEN 0 ELSE 1)
        /\ \A n \in {batch.successful_downloads[k] : k \in DOMAIN batch.successful_downloads}
                    \cup {batch.failed_downloads[k] : k \in DOMAIN batch.failed_downloads} :
               n \in {Selected[j] : j \in DOMAIN Selected}

\* A batch has finished in which the first download raised and a later one
\* succeeded.
C3_Witness ==
    /\ batch.state = "finished"
    /\ batch.raised
    /\ ~attempts[1].ok
    /\ batch.failed_downloads # <<>>
    /\ batch.successful_downloads # <<>>
    /\ Len(attempts) = Len(batch.numbers)

\* C4: for a text written from a selection (comma-separated integers and
\* inclusive ranges) the parser returns the denoted indices, each once, in
\* ascending order.
C4_ParsesDenotedSet ==
    (pc = "parsed" /\ intended # None) =>
        /\ selection_indices # None
        /\ {Selected[j] : j \in DOMAIN Selected} = Denoted(Get(intended))
        /\ \A j \in DOMAIN Selected : j > 1 => Selected[j - 1] < Selected[j]

\* "1,3-5,8" was parsed to [1,3,4,5,8].
C4_Witness ==
    /\ pc = "parsed"
    /\ user_input = <<"1", ",", "3", "-", "5", ",", "8">>
    /\ selection_indices = Some(<<1, 3, 4, 5, 8>>)

\* Whether a text is the keyword `all` or `*`.
IsKeyword(text) == Lower(Strip(text)) \in {<<"a", "l", "l">>, <<"*">>}

\* A well-formed part: an integer, or two integers around one hyphen with
\* start <= end.
WellFormedPart(p) ==
    LET q == Strip(p)
        hyphens == {i \in DOMAIN q : q[i] = "-"}
    IN  IF hyphens = {} THEN AllDigits(q)
        ELSE /\ Cardinality(hyphens) = 1
             /\ LET k == CHOOSE i \in hyphens : TRUE
                    a == Strip(SubSeq(q, 1, k - 1))
                    b == Strip(SubSeq(q, k + 1, Len(q)))
                IN  AllDigits(a) /\ AllDigits(b) /\ DigitsValue(a) <= DigitsValue(b)

\* A text that is not a selection: a character outside digits, commas,
\* hyphens and whitespace, or a part that is not well formed.
Malformed(text) ==
    LET t == Strip(text)
        parts == Split(t, ",")
    IN  \/ \E i \in DOMAIN t : ~(t[i] \in Digits \/ t[i] \in {",", "-"} \/ IsSpace(t[i]))
        \/ \E i \in DOMAIN parts : ~WellFormedPart(parts[i])

\* C5: the parser returns None for every text with a character outside
\* digits, commas, hyphens and whitespace, with a range whose start exceeds
\* its end, or with a part that is not a well-formed integer or range.
C5_MalformedRejected ==
    (pc = "parsed" /\ ~IsKeyword(user_input) /\ Malformed(user_input))
        => selection_indices = None

\* C6: reading `all` or `*` in any case gives every index from 1 to the size
\* of the scope the session held when the line was read (the album list in a
\* profile view, the result list otherwise); when that scope is empty the
\* selection is empty and the command ends with no download and no profile
\* request.
C6_KeywordStep ==
    (pc = "prompt" /\ IsKeyword(user_input'))
        => /\ selection_indices' = Some([i \in 1..Len(CurrentScope) |-> i])
           /\ CurrentScope = <<>> =>
                  /\ selection_indices' = Some(<<>>)
                  /\ attempts' = <<>>
                  /\ profile_call' = None
                  /\ batch' = NoBatch
                  /\ pc' = "handled"

C6_KeywordSelectsScope == [][C6_KeywordStep]_vars

\* ALL was read in a profile view and selected every album of the artist,
\* not every artist of the result list.
C6_Witness ==
    /\ pc = "confirm"
    /\ user_input = <<"A", "L", "L">>
    /\ selection_indices = Some([i \in 1..MaxAlbums |-> i])
    /\ Len(current_artist_albums) = MaxAlbums
    /\ Len(current_results) # MaxAlbums

\* The mode a command word asks a search for, given the mode before.
ModeAsked(cmd, mode) ==
    IF cmd \in {<<"s">>, <<"s", "e", "a", "r", "c", "h">>} THEN "tracks"
    ELSE IF cmd = <<"s", "a">> THEN "albums"
    ELSE IF cmd = <<"s", "t">> THEN "artists"
    ELSE mode

\* C7: a command whose search returned a list leaves the mode the command
\* word asks for (the mode before, for bare text), no album list and no
\* artist info, and the returned list, empty or not, as the result list; the
\* search was made in that mode.
C7_SearchStep ==
    (pc = "prompt" /\ search_call' # None /\ Get(search_call').returned # None)
        => /\ current_mode' = ModeAsked(Lower(FirstWord(user_input')), current_mode)
           /\ Get(search_call').mode = current_mode'
           /\ current_artist_albums' = <<>>
           /\ current_artist_info' = None
           /\ current_results' = Get(Get(search_call').returned)

C7_SearchReplacesResults == [][C7_SearchStep]_vars

\* A second search, for albums, found nothing: the mode is albums and the
\* result list is empty.
C7_Witness ==
    /\ pc = "handled"
    /\ user_input = <<"s", "a", " ", "x">>
    /\ search_call # None
    /\ Get(search_call).returned = Some(<<>>)
    /\ Len(search_history) = 2
    /\ current_mode = "albums"
    /\ current_results = <<>>

\* C8: in artists mode with no profile view a selection starts no download;
\* one index in range requests that artist's profile and enters the profile
\* view; any other selection is rejected with mode, result list and profile
\* view unchanged.
C8_ArtistSelectionStep ==
    (pc = "prompt" /\ selection_indices' # None
        /\ current_mode = "artists" /\ current_artist_albums = <<>>)
        => /\ attempts' = <<>>
           /\ pc' = "handled"
           /\ LET sel == Get(selection_indices')
              IN  IF Len(sel) = 1 /\ ~OutOfRange(sel[1], current_results)
                  THEN /\ profile_call' # None
                       /\ Get(profile_call').artist_id = current_results[sel[1]].id
                       /\ current_artist_albums' # <<>>
                       /\ current_artist_info' # None
                  ELSE /\ profile_call' = None
                       /\ UNCHANGED <<current_mode, current_results,
                                      current_artist_albums, current_artist_info>>

C8_ArtistSelection == [][C8_ArtistSelectionStep]_vars

\* C9: every download of a selection takes its URL from the album list while
\* a profile view is active and from the result list in tracks or albums
\* mode, and the selection is accepted exactly when it is not empty and all
\* its indices are within that list.
C9_ResolvedAgainstScope ==
    HandlingSelection =>
        /\ \A k \in DOMAIN attempts :
               /\ current_artist_albums # <<>> =>
                      attempts[k].url = current_artist_albums[attempts[k].number].url
               /\ (current_artist_albums = <<>> /\ current_mode \in {"tracks", "albums"}) =>
                      attempts[k].url = current_results[attempts[k].number].url
        /\ (current_artist_albums # <<>> \/ current_mode \in {"tracks", "albums"}) =>
               ((batch # NoBatch)
                    <=> (Selected # <<>> /\ \A j \in DOMAIN Selected :
                                                ~OutOfRange(Selected[j], CurrentScope)))

\* In a profile view whose artist list has one entry, album 2 was selected
\* and its download attempted with the album's URL.
C9_Witness ==
    /\ pc = "handled"
    /\ Len(current_results) = 1
    /\ Len(current_artist_albums) = MaxAlbums
    /\ user_input = <<"2">>
    /\ Len(attempts) = 1
    /\ attempts[1].url = current_artist_albums[2].url

\* C10: a step that ends with a profile view active (entering it, or any
\* command inside it) leaves the result list and the mode as they were, and
\* `back` or `b` typed in a profile view leaves no album list and no artist
\* info, with the result list and the mode as they were.
C10_ProfileStep ==
    /\ current_artist_albums' # <<>> =>
           (current_results' = current_results /\ current_mode' = current_mode)
    /\ (pc = "prompt" /\ current_artist_albums # <<>>
            /\ Lower(FirstWord(user_input')) \in {<<"b", "a", "c", "k">>, <<"b">>})
           => /\ current_artist_albums' = <<>>
              /\ current_artist_info' = None
              /\ current_results' = current_results
              /\ current_mode' = current_mode

C10_BackRestores == [][C10_ProfileStep]_vars

\* `back` was typed in a profile view: the view is gone and the artist
\* results are still there.
C10_Witness ==
    /\ pc = "handled"
    /\ notice = "back_to_results"
    /\ current_artist_albums = <<>>
    /\ current_artist_info = None
    /\ current_mode = "artists"
    /\ Len(current_results) = MaxResults
    /\ current_results[1].type = "artist"

\* The command word of the line just read, and what follows it.
CommandWord(text) == Lower(FirstWord(text))

\* C11: `m` or `mode` followed by tracks, albums or artists sets the mode to
\* that value and leaves no album list and no artist info; with no argument
\* or any other argument the mode, the album list and the artist info stay
\* as they were.
C11_ModeStep ==
    (pc = "prompt" /\ CommandWord(user_input') \in {<<"m">>, <<"m", "o", "d", "e">>})
        => LET args == RestArgs(user_input')
           IN  IF args = <<"t", "r", "a", "c", "k", "s">>
                   THEN current_mode' = "tracks" /\ current_artist_albums' = <<>>
                            /\ current_artist_info' = None
               ELSE IF args = <<"a", "l", "b", "u", "m", "s">>
                   THEN current_mode' = "albums" /\ current_artist_albums' = <<>>
                            /\ current_artist_info' = None
               ELSE IF args = <<"a", "r", "t", "i", "s", "t", "s">>
                   THEN current_mode' = "artists" /\ current_artist_albums' = <<>>
                            /\ current_artist_info' = None
               ELSE UNCHANGED <<current_mode, current_artist_albums, current_artist_info>>

C11_ModeCommand == [][C11_ModeStep]_vars

\* `M Tracks` was typed in albums mode: the argument is not one of the three
\* mode names and the mode is still albums.
C11_Witness ==
    /\ pc = "handled"
    /\ user_input = <<"M", " ", "T", "r", "a", "c", "k", "s">>
    /\ notice = "mode_invalid"
    /\ current_mode = "albums"

\* C12: l, status, h, back without a profile view, and s / sa / st without a
\* query leave mode, result list, album list, artist info and search history
\* as they were, and the command ends with no search and no download.
C12_QuietStep ==
    (pc = "prompt"
        /\ LET cmd == CommandWord(user_input')
           IN  \/ cmd \in {<<"l">>, <<"l", "i", "s", "t">>, <<"s", "t", "a", "t", "u", "s">>,
                           <<"h">>, <<"h", "e", "l", "p">>}
               \/ cmd \in {<<"b", "a", "c", "k">>, <<"b">>} /\ current_artist_albums = <<>>
               \/ cmd \in {<<"s">>, <<"s", "e", "a", "r", "c", "h">>, <<"s", "a">>, <<"s", "t">>}
                      /\ RestArgs(user_input') = <<>>)
        => /\ UNCHANGED <<current_mode, current_results, current_artist_albums,
                          current_artist_info, search_history>>
           /\ search_call' = None
           /\ profile_call' = None
           /\ attempts' = <<>>
           /\ batch' = NoBatch
           /\ pc' = "handled"

C12_QuietCommands == [][C12_QuietStep]_vars

\* `back` was typed with no album list while the artist info of a profile
\* without albums was held: the info is still there.
C12_Witness ==
    /\ pc = "handled"
    /\ notice = "nothing_to_go_back_to"
    /\ current_artist_info # None
    /\ current_results # <<>>

\* C13: the session ends only from the prompt, on q / quit or on an interrupt
\* or end of input with no line read; after any other line the handler goes
\* on (to its confirmation prompt, its batch loop or its return) and when it
\* has returned the prompt is shown again.
C13_LoopStep ==
    /\ (pc # "exited" /\ pc' = "exited")
           => /\ pc = "prompt"
              /\ \/ user_input' = <<>>
                 \/ CommandWord(user_input') \in {W_q, W_quit}
    /\ (pc = "prompt" /\ user_input' # <<>> /\ CommandWord(user_input') \notin {W_q, W_quit})
           => pc' \in {"handled", "confirm", "batch"}
    /\ pc \in {"confirm", "batch"} => pc' \in {"handled", "confirm", "batch"}
    /\ pc = "handled" => pc' = "prompt"

C13_LoopEndsOnlyOnQuit == [][C13_LoopStep]_vars

\* The command words _handle_command knows.
KnownWords ==
    {W_q, W_quit, W_h, W_help, W_status, W_s, W_search, W_sa, W_st,
     W_m, W_mode, W_l, W_list, W_back, W_b}

\* C14: a line that is not a selection and does not start with a known
\* command word leaves the mode as it was and no album list and no artist
\* info; a valid text is searched for, whole, in that mode, and the list the
\* search returns becomes the result list.
C14_ImplicitStep ==
    (pc = "prompt" /\ user_input' # <<>> /\ selection_indices' = None
        /\ CommandWord(user_input') \notin KnownWords)
        => /\ current_mode' = current_mode
           /\ current_artist_albums' = <<>>
           /\ current_artist_info' = None
           /\ LET validated == validate_search_query(user_input')
              IN  IF validated = None
                  THEN search_call' = None /\ UNCHANGED current_results
                  ELSE /\ search_call' # None
                       /\ Get(search_call').mode = current_mode
                       /\ Get(search_call').query = Get(validated)
                       /\ Get(search_call').returned # None
                              => current_results' = Get(Get(search_call').returned)

C14_ImplicitSearch == [][C14_ImplicitStep]_vars

\* `x'` was typed in a profile view reached in artists mode: the view is gone,
\* the mode is artists and the result list holds the artists found for x.
C14_Witness ==
    /\ pc = "handled"
    /\ user_input = <<"x", "'">>
    /\ search_call # None
    /\ Get(search_call).query = <<"x">>
    /\ Get(search_call).returned = Some(current_results)
    /\ Len(current_results) = 1
    /\ current_results[1].type = "artist"
    /\ current_mode = "artists"
    /\ Len(search_history) = 2

\* C15: an accepted selection of more items than the threshold of its scope
\* is put to the user before any download, and the batch loop is entered only
\* on the reply y or yes in any case; any other reply ends the command with
\* no download and mode, result list, album list, artist info and history as
\* they were. A selection of at most the threshold is downloaded unprompted.
C15_ConfirmStep ==
    /\ (pc = "prompt" /\ batch'.numbers # <<>>)
           => IF Len(batch'.numbers) > ConfirmThreshold(batch'.scope)
              THEN pc' = "confirm" /\ attempts' = <<>>
              ELSE \/ pc' = "batch" /\ batch'.state = "running"
                   \/ pc' = "handled" /\ Len(batch'.numbers) = 1 /\ Len(attempts') = 1
    /\ (pc = "confirm" /\ confirm' # None)
           => IF Lower(Strip(Get(confirm'))) \in {<<"y">>, <<"y", "e", "s">>}
              THEN pc' = "batch" /\ batch'.state = "running" /\ batch'.numbers = batch.numbers
              ELSE /\ pc' = "handled"
                   /\ attempts' = <<>>
                   /\ batch'.state = "cancelled"
                   /\ UNCHANGED <<current_mode, current_results, current_artist_albums,
                                  current_artist_info, search_history>>
    /\ (pc # "batch" /\ pc' = "batch" /\ Len(batch'.numbers) > ConfirmThreshold(batch'.scope))
           => pc = "confirm" /\ confirm' # None
    /\ Len(attempts') > Len(attempts) => pc = "batch" \/ Len(batch'.numbers) = 1

C15_ConfirmLargeBatch == [][C15_ConfirmStep]_vars

\* Four albums of a profile, one more than the threshold for albums, were
\* selected and the reply " Yes" started the batch.
C15_Witness ==
    /\ pc = "batch"
    /\ confirm = Some(<<" ", "Y", "e", "s">>)
    /\ batch.scope = "albums"
    /\ Len(batch.numbers) = ConfirmThresholdAlbums + 1
    /\ batch.state = "running"

\* C16: an interrupt during a batch ends the batch with the items already
\* downloaded still recorded as successful, no further item is attempted, and
\* the handler returns so that the prompt is shown again; an interrupt at the
\* prompt ends the session.
C16_InterruptStep ==
    /\ (pc = "batch" /\ batch'.state \in {"interrupted", "task_cancelled"})
           => /\ pc' = "handled"
              /\ batch'.successful_downloads = batch.successful_downloads
              /\ batch'.i = batch.i
    /\ batch.state \in {"interrupted", "task_cancelled"}
           => /\ attempts' \in {attempts, <<>>}
              /\ pc' = "prompt"
    /\ (pc = "prompt" /\ user_input' = <<>> /\ notice' = "goodbye") => pc' = "exited"

C16_InterruptEndsBatchOnly == [][C16_InterruptStep]_vars

\* The calls of the search under way on one backend.
CallsOn(backend) == SelectSeq(music_search.calls, LAMBDA c : c.backend = backend)

\* C17: when a search has returned, no exception has left it; an available
\* deemix client was asked first and at most once, and its non-empty answer
\* was returned with the API client not asked at all; otherwise the API client
\* was tried exactly once (the try ending at its creation when it cannot be
\* created), its non-empty answer returned, and [] returned when it raised or
\* answered nothing.
C17_SearchFallback ==
    music_search.at = "returned" =>
        LET calls == music_search.calls
            result == Get(music_search.result)
            primary == CallsOn("deemix")
            secondary == CallsOn("api")
        IN  /\ ~music_search.raised
            /\ music_search.result # None
            /\ Len(primary) = IF music_search.deemix_client THEN 1 ELSE 0
            /\ primary # <<>> => calls[1].backend = "deemix"
            /\ \A i \in DOMAIN calls : calls[i].query = music_search.query
            /\ IF primary # <<>> /\ ~primary[1].raised /\ primary[1].n > 0
               THEN /\ secondary = <<>>
                    /\ result = [from |-> "deemix",
                                 items |-> SearchResults(music_search.kind, primary[1].n)]
               ELSE /\ Len(secondary) = 1
                    /\ secondary[1].stage = "search" <=> music_search.api_client
                    /\ IF secondary[1].stage = "search" /\ ~secondary[1].raised
                              /\ secondary[1].n > 0
                       THEN result = [from |-> "api",
                                      items |-> SearchResults(music_search.kind,
                                                              secondary[1].n)]
                       ELSE result.items = <<>>

\* The deemix client raised, the API client was created for this search and
\* found one album, which was returned.
C17_Witness ==
    /\ music_search.at = "returned"
    /\ music_search.kind = "albums"
    /\ Len(music_search.calls) = 2
    /\ music_search.calls[1].backend = "deemix"
    /\ music_search.calls[1].raised
    /\ music_search.calls[2].backend = "api"
    /\ music_search.calls[2].n = 1
    /\ Get(music_search.result).from = "api"

\* The quality codes without the one given, in their order.
Without(codes, code) == SelectSeq(codes, LAMBDA c : c # code)

\* C18: the list of quality codes of an attempt has no duplicates, starts
\* with the code of the configured quality and goes on with 320 then 128
\* (codes 3, 1) less the configured one.
C18_TierOrder ==
    download_attempt.at # "idle" =>
        LET qualities == download_attempt.qualities
            preferred == _quality_to_code(download_attempt.quality)
        IN  /\ \A i, j \in DOMAIN qualities : qualities[i] = qualities[j] => i = j
            /\ qualities = <<preferred>> \o Without(<<3, 1>>, preferred)

\* C19: a tier that ends in a quality-related error is followed by the next
\* tier when there is one; a tier that ends in any other error ends the
\* attempt as a failure with no further tier tried.
C19_TierErrorStep ==
    (download_attempt.at = "loop" /\ download_attempt'.tried # download_attempt.tried)
        => LET out == download_attempt'.tried[Len(download_attempt'.tried)].outcome
           IN  /\ (out = "quality_error" /\ download_attempt.k < Len(download_attempt.qualities))
                      => /\ download_attempt'.at = "loop"
                         /\ download_attempt'.k = download_attempt.k + 1
               /\ out = "other_error"
                      => /\ download_attempt'.at = "returned"
                         /\ download_attempt'.result = Some(FALSE)

C19_OnlyQualityErrorsFallBack == [][C19_TierErrorStep]_vars

\* C20: no tier is tried after one whose verification succeeded; the attempt
\* returns True exactly when the last tier tried was verified, and False
\* exactly when every code of the list was tried, in order, and none verified.
C20_StopsAtFirstVerified ==
    LET da == download_attempt
        verified == {i \in DOMAIN da.tried : da.tried[i].outcome = "verified"}
    IN  /\ verified \subseteq {Len(da.tried)}
        /\ da.at = "loop" => verified = {}
        /\ \A i \in DOMAIN da.tried : da.tried[i].quality_code = da.qualities[i]
        /\ da.at = "returned"
               => /\ da.result # None
                  /\ Get(da.result) <=> verified # {}
                  /\ ~Get(da.result) <=> (Len(da.tried) = Len(da.qualities) /\ verified = {})

\* Configured for FLAC: the FLAC tier ended in an error, the 320 tier
\* downloaded a file that verification found, and 128 was not tried.
C20_Witness ==
    /\ download_attempt.at = "returned"
    /\ download_attempt.result = Some(TRUE)
    /\ download_attempt.qualities = <<9, 3, 1>>
    /\ Len(download_attempt.tried) = 2
    /\ download_attempt.tried[1].outcome = "other_error"
    /\ download_attempt.tried[2].outcome = "verified"

\* C21: a download(url) call on a client whose backend is not available or
\* that has no ARL returns False at once: no existing-content check is made
\* and no quality tier is tried; and no download(url) call raises.
C21_RefusedStep ==
    /\ (download_call.at = "called" /\ (~download_call.available \/ ~download_call.arl))
           => /\ download_call'.at = "returned"
              /\ download_call'.result = Some(FALSE)
              /\ ~download_call'.checked
              /\ download_attempt' = download_attempt
              /\ download_attempt.at = "idle"
    /\ (~download_call.available \/ ~download_call.arl) => download_attempt'.tried = <<>>
    /\ ~download_call'.raised

C21_RefusedWithoutAttempt == [][C21_RefusedStep]_vars

\* An available client without an ARL was asked for an album all of whose ten
\* tracks are in its folder: it answered False without looking.
C21_Witness ==
    /\ download_call.at = "returned"
    /\ download_call.available
    /\ ~download_call.arl
    /\ download_call.result = Some(FALSE)
    /\ ~download_call.checked
    /\ download_call.url = "album"
    /\ download_call.folder
    /\ download_call.expected_tracks = 10
    /\ download_call.audio_files = 10

\* C22: for an album whose info gives N expected tracks and whose folder
\* exists and holds k audio files with content, a download(url) call that is
\* not refused returns True with no quality tier tried exactly when
\* k >= 80% of N, and goes on to _attempt_download otherwise.
C22_ExistingAlbumStep ==
    (download_call.at = "called" /\ download_call.available /\ download_call.arl
        /\ download_call.url = "album" /\ download_call.info /\ download_call.folder)
        => LET enough == 5 * download_call.audio_files >= 4 * download_call.expected_tracks
           IN  /\ enough <=> (download_call'.at = "returned"
                              /\ download_call'.result = Some(TRUE)
                              /\ download_attempt' = download_attempt
                              /\ download_attempt.tried = <<>>)
               /\ ~enough <=> download_call'.at = "attempting"

C22_ExistingAlbumSkipped == [][C22_ExistingAlbumStep]_vars

\* Ten tracks expected and eight present: reported as downloaded, nothing tried.
C22_Witness ==
    /\ download_call.at = "returned"
    /\ download_call.result = Some(TRUE)
    /\ download_call.url = "album"
    /\ download_call.expected_tracks = 10
    /\ download_call.audio_files = 8
    /\ download_attempt.at = "idle"

\* Ten tracks expected and seven present: a quality tier was tried.
C22_WitnessAttempted ==
    /\ download_call.at = "attempting"
    /\ download_attempt.tried # <<>>

\* C26: two consecutive passes through the rate limiter complete at least
\* 1/requests_per_second apart, whenever the calls are made; so n passes take
\* at least n - 1 intervals from the completion of the first.
C26_PassStep ==
    /\ (fetcher'.passes = fetcher.passes + 1 /\ fetcher.passes >= 1)
           => fetcher'.last_request_time - fetcher.last_request_time >= MinInterval
    /\ fetcher'.passes >= 1
           => fetcher'.last_request_time - fetcher'.first_pass
                  >= (fetcher'.passes - 1) * MinInterval

C26_MinimumInterval == [][C26_PassStep]_vars

\* Three passes were made back to back: the third completed exactly two
\* intervals after the first.
C26_Witness ==
    /\ fetcher.passes = 3
    /\ fetcher.last_request_time - fetcher.first_pass = 2 * MinInterval
    /\ fetcher.now = fetcher.last_request_time

\* C27: a pass that starts with the counter at burst_size or more and before
\* the cooldown period has elapsed since the last request completes no
\* earlier than a cooldown period after that request and leaves the counter
\* at 1; every pass leaves the counter one above what it was or at 1, and
\* the last-request timestamp at the time the pass completes.
C27_BurstStep ==
    fetcher'.passes = fetcher.passes + 1
        => /\ (fetcher.request_count >= BurstSize
                  /\ fetcher.now - fetcher.last_request_time < CooldownPeriod)
                  => /\ fetcher'.now - fetcher.last_request_time >= CooldownPeriod
                     /\ fetcher'.request_count = 1
           /\ fetcher'.request_count \in {fetcher.request_count + 1, 1}
           /\ (fetcher.now - fetcher.last_request_time <= CooldownPeriod
                  /\ fetcher.request_count < BurstSize)
                  => fetcher'.request_count = fetcher.request_count + 1
           /\ fetcher'.last_request_time = fetcher'.now

C23_ReadStep ==
    fetcher'.call.op = "read" =>
        LET file == fetcher.cache[fetcher'.call.key]
            age == fetcher.now - file.mtime
        IN  /\ ~fetcher'.call.raised
            /\ (file.kind = "json" /\ age < CacheTtl) => fetcher'.call.data = Some(file.data)
            /\ (file.kind # "absent" /\ age >= CacheTtl) => fetcher'.call.data = None
            /\ file.kind \in Damage => fetcher'.call.data = None

C23_CacheRoundTrip == [][C23_ReadStep]_vars

\* C24: a search whose key has a cache file younger than the TTL holding cached
\* results returns them without a request and leaves the rate limiter's counter
\* and timestamp alone; a search that misses and whose request succeeds writes
\* its results under that key (the file holds them unless the disk refuses the
\* write) and under no other; a search whose request fails writes nothing.
C24_SearchStep ==
    fetcher'.call.op = "search" =>
        LET seen == fetcher'.call
            file == fetcher.cache[seen.key]
        IN  /\ (file.kind = "json" /\ fetcher.now - file.mtime < CacheTtl) =>
                   /\ seen.hit /\ ~seen.request /\ ~seen.wrote
                   /\ seen.returned = Some(file.data.results)
                   /\ fetcher'.request_count = fetcher.request_count
                   /\ fetcher'.last_request_time = fetcher.last_request_time
                   /\ fetcher'.cache = fetcher.cache
            /\ (seen.request /\ seen.error = "none") =>
                   /\ seen.wrote
                   /\ \/ fetcher'.cache[seen.key] =
                             Written([results |-> Get(seen.returned)], fetcher'.now)
                      \/ fetcher'.cache = fetcher.cache
                   /\ \A key \in CacheKeys \ {seen.key} :
                          fetcher'.cache[key] = fetcher.cache[key]
            /\ (seen.request /\ seen.error # "none") =>
                   ~seen.wrote /\ fetcher'.cache = fetcher.cache

C28_ErrorStep ==
    (fetcher'.call.op = "search" /\ fetcher'.call.request) =>
        LET seen == fetcher'.call
        IN  /\ seen.response.status = 429 => seen.error = "RateLimitError"
            /\ seen.response.status \notin {0, 200, 429} => seen.error = "APIError"
            /\ seen.response.status \notin {0, 200} =>
                   seen.returned = Some(<<>>) /\ ~seen.raised

C25_CleanupStep ==
    fetcher'.call.op = "cleanup" =>
        LET before == fetcher.cache
            after == fetcher'.cache
            retained == Globbed(after)
            removed == Globbed(before) \ retained
        IN  /\ \A file \in retained :
                   after[file] = before[file] /\ fetcher.now - after[file].mtime <= CacheTtl
            /\ Cardinality(retained) <= MaxCacheSize
            /\ \A file \in removed :
                   fetcher.now - before[file].mtime <= CacheTtl =>
                       Cardinality(retained) = MaxCacheSize
            /\ \A old \in removed, kept \in retained : before[old].mtime <= before[kept].mtime

ColonAt(text) == CHOOSE i \in 1..Len(text) : text[i] = ":"

\* The duration in whole seconds a formatting call was given: the input in
\* the backend's unit, 0 when absent.
WholeSeconds(call) ==
    IF call.input = None THEN 0
    ELSE IF call.op = "api_duration" THEN Get(call.input) \div 1000
    ELSE Get(call.input)

\* The formatted duration is minutes, a colon, and two digits of seconds below
\* 60, which together are the duration given.
IsClock(call) ==
    LET text == call.output
        colon == ColonAt(text)
        minutes == SubSeq(text, 1, colon - 1)
        seconds == SubSeq(text, colon + 1, Len(text))
    IN  /\ \E i \in 1..Len(text) : text[i] = ":"
        /\ AllDigits(minutes)
        /\ AllDigits(seconds)
        /\ Len(seconds) = 2
        /\ Len(minutes) > 1 => minutes[1] # "0"
        /\ DigitsValue(seconds) < 60
        /\ 60 * DigitsValue(minutes) + DigitsValue(seconds) = WholeSeconds(call)

DurationDone ==
    formatted.at = "done" /\ formatted.op \in {"api_duration", "deemix_duration"}

\* C29 as stated: the formatted duration is "0:00" exactly when the duration,
\* in the backend's unit, is zero or absent, and otherwise is minutes:seconds
\* with the seconds zero-padded to two digits.
C29_ZeroOnlyWhenZeroOrAbsent ==
    DurationDone =>
        /\ formatted.output = <<"0", ":", "0", "0">>
               <=> (formatted.input = None \/ formatted.input = Some(0))
        /\ IsClock(formatted)

\* C29, amended: the formatted duration is "0:00" exactly when the duration is
\* absent or has no whole second (zero, or below 1000 for the millisecond
\* backend), and is always minutes:seconds of the whole seconds with the
\* seconds zero-padded to two digits; 90000 ms gives "1:30" and 210000 ms
\* gives "3:30".
C29_DurationClock ==
    DurationDone =>
        /\ formatted.output = <<"0", ":", "0", "0">> <=> WholeSeconds(formatted) = 0
        /\ IsClock(formatted)
        /\ (formatted.op = "api_duration" /\ formatted.input = Some(90000)) =>
               formatted.output = <<"1", ":", "3", "0">>
        /\ (formatted.op = "api_duration" /\ formatted.input = Some(210000)) =>
               formatted.output = <<"3", ":", "3", "0">>

\* 90000 ms were formatted as "1:30".
C29_Witness ==
    /\ DurationDone
    /\ formatted.op = "api_duration"
    /\ formatted.input = Some(90000)
    /\ formatted.output = <<"1", ":", "3", "0">>

NormalizationDone ==
    /\ formatted.at = "done"
    /\ formatted.op \in {"recording", "release", "artist",
                          "deemix_tracks", "deemix_albums", "deemix_artists"}

\* C30: every normalized result has a type tag that is not empty, has an id,
\* a url and a relevance score, and has no field that is null; a missing
\* title or name is "Unknown".
C30_NoNullField ==
    NormalizationDone =>
        /\ \A i \in 1..Len(formatted.output) :
               LET result == formatted.output[i]
               IN  /\ {"type", "id", "url", "score"} \subseteq DOMAIN result
                   /\ \A field \in DOMAIN result : result[field] # None
                   /\ result.type # Some("")
        /\ (Len(formatted.input) = 1 /\ Len(formatted.output) = 1) =>
               \A field \in {"title", "name"} \cap DOMAIN formatted.input[1]
                                              \cap DOMAIN formatted.output[1] :
                   formatted.input[1][field] = None =>
                       formatted.output[1][field] = Some("Unknown")

\* The key a finished search ranks its results by: the relevance score for
\* the metadata backend, the fan count for the artist search of the download
\* backend.
RankOf(result) == IF formatted.op = "deemix_search_artists" THEN Get(result.fans)
                  ELSE Get(result.score)

\* Where the backend supplied the item a result was made from.
SuppliedAt(result) == CHOOSE k \in 1..Len(formatted.input) : formatted.input[k].id = result.id

RankingDone ==
    /\ formatted.at = "done"
    /\ formatted.op \in {"recording", "release", "artist", "deemix_search_artists"}

\* The relevance score of a result, 0 for a result without one.
ScoreOf(result) == IF "score" \in DOMAIN result THEN Get(result.score) ELSE 0

\* C31 as stated: the results a search returns are in descending order of
\* relevance score, and results of equal score are in the order the backend
\* supplied them.
C31_ByRelevanceScore ==
    RankingDone =>
        \A i, j \in 1..Len(formatted.output) :
            i < j =>
                \/ ScoreOf(formatted.output[i]) > ScoreOf(formatted.output[j])
                \/ /\ ScoreOf(formatted.output[i]) = ScoreOf(formatted.output[j])
                   /\ SuppliedAt(formatted.output[i]) < SuppliedAt(formatted.output[j])

\* C31, amended: the results a search returns are every item the backend
\* supplied, in descending order of the backend's ranking key (the relevance
\* score for the metadata backend, the fan count for the artist search of the
\* download backend), and results of equal key are in the order the backend
\* supplied them.
C31_RankedStable ==
    RankingDone =>
        /\ Len(formatted.output) = Len(formatted.input)
        /\ \A k \in 1..Len(formatted.input) :
               \E i \in 1..Len(formatted.output) : formatted.output[i].id = formatted.input[k].id
        /\ \A i, j \in 1..Len(formatted.output) :
               i < j =>
                   \/ RankOf(formatted.output[i]) > RankOf(formatted.output[j])
                   \/ /\ RankOf(formatted.output[i]) = RankOf(formatted.output[j])
                      /\ SuppliedAt(formatted.output[i]) < SuppliedAt(formatted.output[j])

\* Three artists were ranked: the one supplied last has the highest score and
\* comes first, the other two have equal scores and keep their order.
C31_Witness ==
    /\ RankingDone
    /\ formatted.op = "artist"
    /\ Len(formatted.output) = 3
    /\ formatted.output[1].id = Some("mbid-3")
    /\ formatted.output[2].id = Some("mbid-1")
    /\ formatted.output[3].id = Some("mbid-2")
    /\ formatted.output[2].score = formatted.output[3].score

\* C32: a call of a wrapped function that raises an error returns None when
\* reraise is left False, and raises the error when reraise is True.
C32_WrapperStep ==
    (error_handler'.call.op = "wrapper" /\ error_handler'.call.error # None) =>
        /\ ~error_handler'.call.reraise => error_handler'.call.outcome = "returned_none"
        /\ error_handler'.call.reraise => error_handler'.call.outcome = "raised"

C32_DecoratorSwallows == [][C32_WrapperStep]_vars

\* How many of the errors handed over so far are of a type.
HandledOf(error_type) ==
    Cardinality({i \in 1..Len(error_handler.handled) : error_handler.handled[i] = error_type})

\* The error type a step hands to the handler, if it hands one over.
HandedOver ==
    IF error_handler'.call.op = "handle_error" THEN Some(error_handler'.call.error)
    ELSE IF error_handler'.call.op = "wrapper" /\ error_handler'.call.own_handler
    THEN error_handler'.call.error
    ELSE None

\* C33: a step that hands an error to the handler adds one to the count of its
\* type and leaves the other counts alone; no step lowers a count; the
\* statistics the status command reads are, for each type, the number of
\* errors of that type handed over so far.
C33_CountStep ==
    /\ \A error_type \in ErrorTypes :
           error_handler'.error_counts[error_type] =
               error_handler.error_counts[error_type]
                   + (IF HandedOver = Some(error_type) THEN 1 ELSE 0)
    /\ error_handler'.call.op = "get_error_stats" =>
           \A error_type \in ErrorTypes :
               error_handler'.call.stats[error_type] = HandledOf(error_type)

C33_CountedByKind == [][C33_CountStep]_vars

\* The status command read two ValueErrors and one TypeError.
C33_Witness ==
    /\ error_handler.call.op = "get_error_stats"
    /\ error_handler.call.stats["ValueError"] = 2
    /\ error_handler.call.stats["TypeError"] = 1
    /\ Len(error_handler.handled) = 3

\* C34: whenever a profile view is active (the artist album list is not
\* empty) the current mode is artists.
C34_ProfileOnlyInArtistsMode == current_artist_albums # <<>> => current_mode = "artists"

\* A profile view is active, after a command was handled.
C34_Witness ==
    /\ pc = "handled"
    /\ current_artist_albums # <<>>
    /\ current_mode = "artists"
    /\ notice = "profile"

C36_ResultsOfModeKind ==
    \A i \in 1..Len(current_results) : current_results[i].type = KindOf(current_mode)

\* C37: a search command (s, sa, st with a query) whose query fails
\* validation reports the error and leaves the mode, the result list, the
\* album list, the artist info and the search history as they were.
C37_InvalidQueryStep ==
    (pc = "prompt"
        /\ selection_indices' = None
        /\ CommandWord(user_input') \in {<<"s">>, <<"s", "e", "a", "r", "c", "h">>,
                                         <<"s", "a">>, <<"s", "t">>}
        /\ RestArgs(user_input') # <<>>
        /\ validate_search_query(RestArgs(user_input')) = None)
        => /\ notice' = "error"
           /\ search_call' = None
           /\ UNCHANGED <<current_mode, current_results, current_artist_albums,
                          current_artist_info, search_history>>

C37_InvalidQueryChangesNothing == [][C37_InvalidQueryStep]_vars

\* A text made only of digits, commas, hyphens and whitespace.
SelectionCharsOnly(text) ==
    text # <<>> /\ \A i \in DOMAIN text :
                      text[i] \in Digits \/ text[i] \in {",", "-"} \/ IsSpace(text[i])

\* C38: a line made only of digits, commas, hyphens and whitespace starts no
\* search and leaves the result list and the search history as they were;
\* when it is not a selection it also leaves the album list and the artist info
\* as they were and is only reported as invalid.
C38_DigitsStep ==
    (pc = "prompt" /\ SelectionCharsOnly(user_input'))
        => /\ search_call' = None
           /\ UNCHANGED <<current_results, search_history>>
           /\ selection_indices' = None =>
                  /\ UNCHANGED <<current_artist_albums, current_artist_info>>
                  /\ notice' \notin {"results", "no_results_found"}

C38_DigitsNeverSearch == [][C38_DigitsStep]_vars

\* C39: once a request has been counted the burst counter is between 1 and
\* burst_size, whatever the arrival times of the requests, a request arriving
\* exactly one cooldown period after the previous one included.
C39_BurstCounterBounded ==
    fetcher.passes > 0 => fetcher.request_count \in 1..BurstSize

\* C40: a download(url) call for an album is answered "already downloaded"
\* (True from the existing-content check, nothing attempted) only if the
\* album's folder holds at least one audio file with content, whatever
\* nb_tracks the backend gave, 0 and a missing count (read as 0) included.
C40_ExistingStep ==
    (download_call.at = "called" /\ download_call.url = "album"
        /\ download_call'.at = "returned" /\ download_call'.result = Some(TRUE))
        => download_call.audio_files >= 1

C40_NoFileNeverDownloaded == [][C40_ExistingStep]_vars

====
